---- MODULE Spec2Model ----
(***************************************************************************)
(* dbpp: a table of fixed-size records, stored on disk (OnDiskTable: one   *)
(* rows file plus a write buffer of one block) or in memory               *)
(* (InMemoryTable: a vector of records).                                   *)
(*                                                                         *)
(* A record is SizeofRecord bytes; the rows file is a sequence of bytes.   *)
(* The file primitive is modelled by what the system calls do on a regular *)
(* file: pread returns the bytes between the offset and the end of file,   *)
(* write after lseek(SEEK_END) appends all of its bytes, ftruncate(0)      *)
(* empties the file, unlink removes the name and leaves the open file.     *)
(***************************************************************************)
EXTENDS Integers, Sequences, FiniteSets, TLC

(* ------------------------------ bounds --------------------------------- *)

\* sizeof(Record), in bytes.
SizeofRecord == 2

\* The number of bytes of a block (4096 in on-disk-table.hpp), scaled down.
BlockBytes == 5

\* The number of distinct record values that are inserted.
NumValues == 2

\* Inserts are enabled while the table holds fewer records than this.
MaxRecords == 5

\* The number of names File::create_temp can draw.
NumTempNames == 2

(* ------------------------------ records -------------------------------- *)

\* The bytes of the record value v.
Rec(v) == [i \in 1..SizeofRecord |-> 10 * v + i]

\* The records a caller inserts.
RecordValues == {Rec(v) : v \in 1..NumValues}

\* A slot of `new Record[n]` nothing was stored in yet: its value is
\* indeterminate, and a read of it can give any bytes.
Uninit == [i \in 1..SizeofRecord |-> 0]

Min(a, b) == IF a < b THEN a ELSE b

(* --------------------- OnDiskTable static constants -------------------- *)

ENTRIES_PER_BLOCK == BlockBytes \div SizeofRecord

BLOCK_SIZE == ENTRIES_PER_BLOCK * SizeofRecord

(* ---------------------------- io::File --------------------------------- *)

\* File::size: st_size of the open file.
FileSize(bytes) == Len(bytes)

\* File::read_at: pread(fd, buf, size, offset); the bytes read.
ReadAt(bytes, offset, size) ==
    SubSeq(bytes, offset + 1, Min(offset + size, Len(bytes)))

\* Mutant of File::append: the write stops one byte short.
FileAppend_M(bytes, data, size) == bytes \o SubSeq(data, 1, size - 1)

\* File::append: lseek(fd, 0, SEEK_END); write(fd, data, size).
FileAppend(bytes, data, size) == bytes \o SubSeq(data, 1, size)

\* File::clear: ftruncate(fd, 0).
FileClear(bytes) == << >>

(* ------------------------------ paths ---------------------------------- *)

\* The rows file of the persistent table: path + "/rows".
RowsPath == <<"rows", 0>>

\* The names File::create_temp can produce.
TempPaths == {<<"tmp", n>> : n \in 1..NumTempNames}

NoPath == <<"none", 0>>

AllPaths == {RowsPath} \cup TempPaths

Absent == [exists |-> FALSE, data |-> << >>]

(* ------------------------------- state --------------------------------- *)

VARIABLES
    kind,                   \* the table the program works on: "memory",
                            \* "persistent" (open) or "temporary" (create_temp)
    status,                 \* "none": no table object; "open"; "aborted"
    dir_exists,             \* the table directory root_path exists on disk
    fs,                     \* path -> [exists, data]: the named files on disk
    unlinked,               \* the open rows file has lost its name (unlink)
    orphan,                 \* the bytes of the open rows file once unlinked
    fd_open,                \* the descriptor rows_file.fd is open
    fd_to_path,             \* File::fd_to_path[rows_file.fd]
    root_path,              \* OnDiskTable::root_path
    rows_file,              \* OnDiskTable::rows_file.fd
    rows_write_buffer,      \* OnDiskTable::rows_write_buffer[0..ENTRIES_PER_BLOCK)
    buffer_allocated,       \* the array behind rows_write_buffer is allocated
    rows_write_buffer_size, \* OnDiskTable::rows_write_buffer_size
    temp,                   \* OnDiskTable::temp
    rows,                   \* InMemoryTable::rows
    it,                     \* the scan iterator (IteratorBase) of the table
    scanned,                \* history: the records the scan has yielded
    inserted,               \* history: records inserted since the last clear
    fresh,                  \* history: cleared, or opened on an empty file
    explicit_flush,         \* history: flush_write_buffer called since then
    last_op,                \* history: the operation that ran last
    dtor,                   \* history: the table as its destructor found it
    got,                    \* what the last read(index) call gave its caller
    test_a,                 \* the vector of records the tables A are made of
    test_b,                 \* the vector of records the tables B are made of
    a_disk,                 \* the on-disk table A: its file, buffer and size
    b_disk,                 \* the on-disk table B
    out,                    \* the table an algorithm has returned
    call,                   \* history: the algorithm call that returned out
    sys,                    \* history: the system call that failed, and what
                            \* its caller did about it
    copied,                 \* a copy of the scan iterator, and the records
                            \* it has yielded
    moved,                  \* the table objects that were moved from and
                            \* are not destroyed yet
    snapshot,               \* history: the records the table held when the
                            \* scan began
    file_name               \* File::create_temp: the character of file_name
                            \* replaced last, and what it was made from

tableVars == <<dir_exists, fs, unlinked, orphan, fd_open, fd_to_path,
               root_path, rows_file, rows_write_buffer, buffer_allocated,
               rows_write_buffer_size, temp>>

histVars == <<inserted, fresh, explicit_flush, last_op, dtor>>

scanVars == <<it, scanned>>

algVars == <<test_a, test_b, a_disk, b_disk, out, call>>

vars ==
    <<kind, status, tableVars, rows, scanVars, histVars, got, algVars, sys,
      copied, moved, snapshot, file_name>>

(* ------------------------- OnDiskTable, pure parts --------------------- *)

\* (char *) rows_write_buffer: the bytes of the first n slots of the array.
RECURSIVE BufferBytes(_, _)
BufferBytes(buf, n) ==
    IF n = 0 THEN << >> ELSE BufferBytes(buf, n - 1) \o buf[n]

\* The bytes of the open rows file.
RowsData == IF unlinked THEN orphan ELSE fs[fd_to_path].data

\* Mutant of OnDiskTable::size: the byte count of the file is not divided by
\* sizeof(Record).
OnDiskTable_size_M(data, n) == FileSize(data) + n

\* OnDiskTable::size on a table with file bytes data and n buffered records.
OnDiskTable_size(data, n) == FileSize(data) \div SizeofRecord + n

\* Mutant of OnDiskTable::read: the comparison with num_entries is strict.
OnDiskTable_read_M(data, buf, index) ==
    LET num_entries == FileSize(data) \div SizeofRecord
    IN  IF index > num_entries
        THEN buf[index - num_entries + 1]
        ELSE ReadAt(data, index * SizeofRecord, SizeofRecord)

\* OnDiskTable::read(index); index counts from 0.
OnDiskTable_read(data, buf, index) ==
    LET num_entries == FileSize(data) \div SizeofRecord
    IN  IF index >= num_entries
        THEN buf[index - num_entries + 1]
        ELSE ReadAt(data, index * SizeofRecord, SizeofRecord)

\* Mutant of OnDiskTable::flush_write_buffer: the whole buffer is written.
OnDiskTable_flush_write_buffer_M(data, buf, n) ==
    [data |-> FileAppend(data, BufferBytes(buf, ENTRIES_PER_BLOCK),
                         ENTRIES_PER_BLOCK * SizeofRecord),
     buf  |-> buf,
     n    |-> 0]

\* Mutant of OnDiskTable::flush_write_buffer: the buffer size is not reset.
OnDiskTable_flush_write_buffer_M2(data, buf, n) ==
    [data |-> FileAppend(data, BufferBytes(buf, ENTRIES_PER_BLOCK),
                         n * SizeofRecord),
     buf  |-> buf,
     n    |-> n]

\* OnDiskTable::flush_write_buffer: the file bytes and buffer size after it.
OnDiskTable_flush_write_buffer(data, buf, n) ==
    [data |-> FileAppend(data, BufferBytes(buf, ENTRIES_PER_BLOCK),
                         n * SizeofRecord),
     buf  |-> buf,
     n    |-> 0]

\* Mutant of OnDiskTable::insert: the buffer is flushed one record late.
OnDiskTable_insert_M(data, buf, n, record) ==
    LET buf1 == [buf EXCEPT ![n + 1] = record]
        n1   == n + 1
    IN  IF n1 > ENTRIES_PER_BLOCK
        THEN [data |-> FileAppend(data, BufferBytes(buf1, ENTRIES_PER_BLOCK),
                                  ENTRIES_PER_BLOCK * SizeofRecord),
              buf |-> buf1, n |-> 0]
        ELSE [data |-> data, buf |-> buf1, n |-> n1]

\* OnDiskTable::insert(record).
OnDiskTable_insert(data, buf, n, record) ==
    LET buf1 == [buf EXCEPT ![n + 1] = record]
        n1   == n + 1
    IN  IF n1 = ENTRIES_PER_BLOCK
        THEN OnDiskTable_flush_write_buffer(data, buf1, n1)
        ELSE [data |-> data, buf |-> buf1, n |-> n1]

\* Mutant of OnDiskTable::clear: the buffer size is not reset.
OnDiskTable_clear_M(data, buf, n) ==
    [data |-> FileClear(data), buf |-> buf, n |-> n]

\* OnDiskTable::clear.
OnDiskTable_clear(data, buf, n) ==
    [data |-> FileClear(data), buf |-> buf, n |-> 0]

\* The table as a caller sees it: read(0), ..., read(size() - 1).
DiskLogical(data, buf, n) ==
    [i \in 1..OnDiskTable_size(data, n) |-> OnDiskTable_read(data, buf, i - 1)]

(* ------------------------ InMemoryTable, pure parts -------------------- *)

InMemoryTable_size(rs) == Len(rs)

InMemoryTable_read(rs, index) == rs[index + 1]

InMemoryTable_insert(rs, row) == Append(rs, row)

InMemoryTable_clear(rs) == << >>

MemLogical(rs) ==
    [i \in 1..InMemoryTable_size(rs) |-> InMemoryTable_read(rs, i - 1)]

(* ----------------------- the table the program uses -------------------- *)

OnDisk == kind # "memory"

Size ==
    IF OnDisk THEN OnDiskTable_size(RowsData, rows_write_buffer_size)
    ELSE InMemoryTable_size(rows)

Logical ==
    IF OnDisk
    THEN DiskLogical(RowsData, rows_write_buffer, rows_write_buffer_size)
    ELSE MemLogical(rows)

(* ------------------------ IteratorBase, pure parts --------------------- *)

NoIterator ==
    [phase |-> "NONE", rows_file_pos |-> 0, block_kind |-> "null",
     block |-> << >>, block_size |-> 0, block_pos |-> 0]

\* Mutant of IteratorBase::read_next_block: at the end of the file the scan
\* ends, whatever the write buffer holds.
read_next_block_M(i, data, n) ==
    LET bytes      == ReadAt(data, i.rows_file_pos, BLOCK_SIZE)
        bytes_read == Len(bytes)
    IN  IF bytes_read > 0
        THEN [i EXCEPT !.block = bytes \o SubSeq(i.block, bytes_read + 1,
                                                 Len(i.block)),
                       !.block_size = bytes_read,
                       !.block_pos = 0]
        ELSE [i EXCEPT !.phase = "END", !.block_kind = "null",
                       !.block = << >>, !.block_size = 0, !.block_pos = 0]

\* IteratorBase::read_next_block on a table with file bytes data and n
\* buffered records.  block_kind tells what the pointer block points to: the
\* iterator's own array ("own"), the table's write buffer ("alias") or
\* nothing ("null").  pread overwrites the first bytes_read bytes of block.
read_next_block(i, data, n) ==
    LET bytes      == ReadAt(data, i.rows_file_pos, BLOCK_SIZE)
        bytes_read == Len(bytes)
    IN  IF bytes_read > 0
        THEN [i EXCEPT !.block = bytes \o SubSeq(i.block, bytes_read + 1,
                                                 Len(i.block)),
                       !.block_size = bytes_read,
                       !.block_pos = 0]
        ELSE IF n = 0
        THEN [i EXCEPT !.phase = "END", !.block_kind = "null",
                       !.block = << >>, !.block_size = 0, !.block_pos = 0]
        ELSE [i EXCEPT !.phase = "ROWS_BUFFER", !.block_kind = "alias",
                       !.block = << >>,
                       !.block_size = n * SizeofRecord, !.block_pos = 0]

\* Mutant of IteratorBase(const OnDiskTable &): the first block is not read.
IteratorBegin_M(data, n) ==
    [phase |-> "ROWS_FILE", rows_file_pos |-> 0, block_kind |-> "own",
     block |-> [b \in 1..BLOCK_SIZE |-> 0], block_size |-> 0,
     block_pos |-> 0]

\* IteratorBase(const OnDiskTable &): block = new Record[BLOCK_SIZE], of which
\* the first BLOCK_SIZE bytes are kept here; then read_next_block.
IteratorBegin(data, n) ==
    read_next_block(
        [phase |-> "ROWS_FILE", rows_file_pos |-> 0, block_kind |-> "own",
         block |-> [b \in 1..BLOCK_SIZE |-> 0], block_size |-> 0,
         block_pos |-> 0],
        data, n)

\* IteratorBase::operator*: block[block_pos].
Deref(i, buf) ==
    IF i.block_kind = "alias"
    THEN buf[i.block_pos + 1]
    ELSE SubSeq(i.block, i.block_pos * SizeofRecord + 1,
                (i.block_pos + 1) * SizeofRecord)

\* Mutant of IteratorBase::operator++: the end of the write buffer does not
\* end the scan.
Increment_M(i, data, n) ==
    LET j == [i EXCEPT !.block_pos = i.block_pos + 1]
    IN  IF j.block_pos * SizeofRecord = j.block_size
        THEN CASE j.phase = "ROWS_FILE" ->
                    read_next_block(
                        [j EXCEPT !.rows_file_pos = j.rows_file_pos
                                                    + j.block_size],
                        data, n)
               [] j.phase = "ROWS_BUFFER" -> [j EXCEPT !.block_pos = 0]
               [] OTHER -> j
        ELSE j

\* Mutant of IteratorBase::operator++: an iterator in phase END goes back to
\* the write buffer.
Increment_M2(i, data, n) ==
    LET j == [i EXCEPT !.block_pos = i.block_pos + 1]
    IN  IF j.phase = "END" THEN [j EXCEPT !.phase = "ROWS_BUFFER"]
        ELSE IF j.block_pos * SizeofRecord = j.block_size
        THEN CASE j.phase = "ROWS_FILE" ->
                    read_next_block(
                        [j EXCEPT !.rows_file_pos = j.rows_file_pos
                                                    + j.block_size],
                        data, n)
               [] j.phase = "ROWS_BUFFER" -> [j EXCEPT !.phase = "END"]
               [] OTHER -> j
        ELSE j

\* IteratorBase::operator++.
Increment(i, data, n) ==
    LET j == [i EXCEPT !.block_pos = i.block_pos + 1]
    IN  IF j.block_pos * SizeofRecord = j.block_size
        THEN CASE j.phase = "ROWS_FILE" ->
                    read_next_block(
                        [j EXCEPT !.rows_file_pos = j.rows_file_pos
                                                    + j.block_size],
                        data, n)
               [] j.phase = "ROWS_BUFFER" -> [j EXCEPT !.phase = "END"]
               [] OTHER -> j
        ELSE j

\* The values a field that no constructor initialises can hold: any, of
\* which these are taken.
Indeterminate == {0, SizeofRecord, BLOCK_SIZE}

\* IteratorBase(const OnDiskTable &, Phase): end().  The constructor sets
\* phase and block; rows_file_pos, block_size and block_pos hold whatever
\* was in their bytes.
IteratorEnd(pos, size, offset) ==
    [phase |-> "END", rows_file_pos |-> pos, block_kind |-> "null",
     block |-> << >>, block_size |-> size, block_pos |-> offset]

\* The iterators end() can return.
EndIterators ==
    {IteratorEnd(pos, size, offset) :
        pos \in Indeterminate, size \in Indeterminate,
        offset \in Indeterminate}

\* IteratorBase(const IteratorBase &other): the fields of other, and block =
\* new Record[BLOCK_SIZE] with the first block_size bytes of other.block
\* copied into it, whether other.block is an array of other or the write
\* buffer buf of the table.
IteratorCopy(i, buf) ==
    LET from == IF i.block_kind = "alias"
                THEN BufferBytes(buf, ENTRIES_PER_BLOCK)
                ELSE i.block
    IN  [i EXCEPT !.block_kind = "own",
                  !.block = [b \in 1..BLOCK_SIZE |->
                                IF b <= i.block_size THEN from[b] ELSE 0]]

\* Mutant of IteratorBase::operator==: an iterator in the write buffer is
\* equal to every iterator.
IteratorEquals_M(i, j) ==
    IF i.phase = "ROWS_BUFFER" THEN TRUE
    ELSE IF i.phase # j.phase THEN FALSE
    ELSE CASE i.phase = "ROWS_FILE" ->
                 /\ i.rows_file_pos = j.rows_file_pos
                 /\ i.block_pos = j.block_pos
           [] OTHER -> TRUE

\* IteratorBase::operator==.
IteratorEquals(i, j) ==
    IF i.phase # j.phase THEN FALSE
    ELSE CASE i.phase = "ROWS_FILE" ->
                 /\ i.rows_file_pos = j.rows_file_pos
                 /\ i.block_pos = j.block_pos
           [] i.phase = "ROWS_BUFFER" -> i.block_pos = j.block_pos
           [] OTHER -> TRUE

(* ------------------------------- Init ---------------------------------- *)

NoDtor ==
    [valid |-> FALSE, removed |-> FALSE, path |-> NoPath, buffered |-> 0,
     seq |-> << >>]

FreedBuffer == [k \in 1..ENTRIES_PER_BLOCK |-> Uninit]

\* Before the program has made a table: an empty disk; an InMemoryTable is
\* made by its constructor, an OnDiskTable by open or create_temp.
TableInit ==
    /\ kind \in {"memory", "persistent", "temporary"}
    /\ status = IF kind = "memory" THEN "open" ELSE "none"
    /\ dir_exists = FALSE
    /\ fs = [p \in AllPaths |-> Absent]
    /\ unlinked = FALSE
    /\ orphan = << >>
    /\ fd_open = FALSE
    /\ fd_to_path = NoPath
    /\ root_path = ""
    /\ rows_file = -1
    /\ rows_write_buffer = FreedBuffer
    /\ buffer_allocated = FALSE
    /\ rows_write_buffer_size = 0
    /\ temp = FALSE
    /\ moved = << >>
    /\ snapshot = << >>
    /\ file_name = [pos |-> 10, rand |-> 0, index |-> 0, char |-> "X"]
    /\ rows = << >>
    /\ it = NoIterator
    /\ scanned = << >>
    /\ inserted = << >>
    /\ fresh = (kind = "memory")
    /\ explicit_flush = FALSE
    /\ last_op = "init"
    /\ dtor = NoDtor

\* No read has been called.
NoRead == [outcome |-> "none", index |-> 0, record |-> Uninit]

\* No algorithm has been called and no table of the algorithms exists.
NoTable ==
    [kind |-> "none", rows |-> << >>, path |-> NoPath, data |-> << >>,
     buf |-> FreedBuffer, n |-> 0, pos |-> 0]

NoCall ==
    [op |-> "none", a |-> "none", b |-> "none", filter |-> "none",
     applied |-> << >>, evals |-> 0, scans_a |-> 0, scans_b |-> 0,
     equal |-> FALSE]

\* No system call has failed.
NoFailure == [failed |-> "none", reported |-> 0]

\* No copy of the iterator has been made.
NoCopy == [it |-> NoIterator, scanned |-> << >>]

Init ==
    /\ TableInit
    /\ sys = NoFailure
    /\ copied = NoCopy
    /\ got = NoRead
    /\ test_a = << >>
    /\ test_b = << >>
    /\ a_disk = NoTable
    /\ b_disk = NoTable
    /\ out = NoTable
    /\ call = NoCall

(* ------------------------------ actions -------------------------------- *)

\* The rows file gets the bytes data: under its name, or in the unlinked
\* open file.
WriteRows(data) ==
    IF unlinked
    THEN /\ orphan' = data
         /\ fs' = fs
    ELSE /\ fs' = [fs EXCEPT ![fd_to_path].data = data]
         /\ orphan' = orphan

\* Every scan of the repository is a loop that runs to its end without a
\* write to the table it scans; the iterator lives for the loop only, so the
\* next operation on the table finds no iterator.
NoScan == it.phase \in {"NONE", "END"}

EndScan ==
    /\ it' = NoIterator
    /\ scanned' = << >>

\* An operation on the table, of which the system call failure (or none)
\* failed, leaves the tables of the algorithms alone, and the value an
\* earlier read returned is gone.
Outcome(failure) ==
    /\ got' = NoRead
    /\ sys' = failure
    /\ UNCHANGED <<algVars, copied, moved, snapshot, file_name>>

\* An operation all system calls of which succeed.
Elsewhere == Outcome(NoFailure)

\* The system calls of the operations on an open table other than remove:
\* fstat in size, ftruncate in clear, pread in read and in a scan, lseek and
\* write in flush_write_buffer.
UseSyscalls == {"fstat", "ftruncate", "pread", "lseek", "write"}

\* What the caller of the system call does when the call returns -1:
\* die_errno everywhere, except that File::close does not look at what
\* ::close returns.
OnFailure(syscall) == IF syscall = "close" THEN "ignored" ELSE "die_errno"

\* The failure of syscall as its caller leaves it: die_errno prints one
\* message.
Failed(syscall) ==
    [failed |-> syscall,
     reported |-> IF OnFailure(syscall) = "die_errno" THEN 1 ELSE 0]

\* Mutant of open: the file is truncated when it is opened (O_TRUNC).
OpenCreat_M(files, path) ==
    [files EXCEPT ![path] = [exists |-> TRUE, data |-> << >>]]

\* open(path, O_RDWR | O_CREAT, 0644): a file that is there is opened as it
\* is, a file that is not there is created empty.
OpenCreat(files, path) ==
    IF files[path].exists THEN files
    ELSE [files EXCEPT ![path] = [exists |-> TRUE, data |-> << >>]]

\* File::open_rw / File::create_temp: open(path, O_RDWR | O_CREAT, 0644) and
\* the OnDiskTable constructor around the descriptor.
Construct(path, root, is_temp) ==
    /\ fs' = OpenCreat(fs, path)
    /\ unlinked' = FALSE
    /\ orphan' = << >>
    /\ fd_open' = TRUE
    /\ fd_to_path' = path
    /\ root_path' = root
    /\ rows_file' = 3
    /\ rows_write_buffer' = [k \in 1..ENTRIES_PER_BLOCK |-> Uninit]
    /\ buffer_allocated' = TRUE
    /\ rows_write_buffer_size' = 0
    /\ temp' = is_temp
    /\ status' = "open"
    /\ it' = NoIterator
    /\ scanned' = << >>
    /\ inserted' = << >>
    /\ fresh' = (FileSize(fs[path].data) = 0)
    /\ explicit_flush' = FALSE
    /\ UNCHANGED <<kind, rows, dtor>>
    /\ Elsewhere

\* OnDiskTable::open(path): ensure_dir(path), open_rw(path + "/rows").
Open ==
    /\ kind = "persistent"
    /\ status = "none"
    /\ dir_exists' = TRUE
    /\ Construct(RowsPath, "table", FALSE)
    /\ last_op' = "open"

\* OnDiskTable::create_temp(): File::create_temp draws a name.
CreateTemp ==
    /\ kind = "temporary"
    /\ status = "none"
    /\ \E path \in TempPaths : Construct(path, "dummy", TRUE)
    /\ last_op' = "create_temp"
    /\ UNCHANGED dir_exists

\* The table fields and file after an operation whose result is res.
Apply(res) ==
    /\ NoScan
    /\ EndScan
    /\ dtor' = NoDtor
    /\ WriteRows(res.data)
    /\ rows_write_buffer' = res.buf
    /\ rows_write_buffer_size' = res.n
    /\ UNCHANGED <<kind, status, dir_exists, unlinked, fd_open, fd_to_path,
                   root_path, rows_file, buffer_allocated, temp, rows>>
    /\ Elsewhere

\* table.insert(record) on an on-disk table.
Insert ==
    /\ OnDisk
    /\ status = "open"
    /\ Size < MaxRecords
    /\ \E record \in RecordValues :
          /\ Apply(OnDiskTable_insert(RowsData, rows_write_buffer,
                                      rows_write_buffer_size, record))
          /\ inserted' = Append(inserted, record)
    /\ last_op' = "insert"
    /\ UNCHANGED <<fresh, explicit_flush>>

\* table.flush_write_buffer() called by the user of the table.
FlushWriteBuffer ==
    /\ OnDisk
    /\ status = "open"
    /\ Apply(OnDiskTable_flush_write_buffer(RowsData, rows_write_buffer,
                                            rows_write_buffer_size))
    /\ explicit_flush' = TRUE
    /\ last_op' = "flush"
    /\ UNCHANGED <<inserted, fresh>>

\* table.clear() on an on-disk table.
Clear ==
    /\ OnDisk
    /\ status = "open"
    /\ Apply(OnDiskTable_clear(RowsData, rows_write_buffer,
                               rows_write_buffer_size))
    /\ inserted' = << >>
    /\ fresh' = TRUE
    /\ explicit_flush' = FALSE
    /\ last_op' = "clear"

\* die_errno: the message is printed and abort() ends the process; no
\* destructor runs, the system closes the descriptors and takes the memory.
\* The fields of the table keep the values they had.
Abort ==
    /\ status' = "aborted"
    /\ fd_open' = FALSE
    /\ buffer_allocated' = FALSE
    /\ orphan' = << >>
    /\ dtor' = NoDtor
    /\ UNCHANGED <<kind, fd_to_path, root_path, rows_file, rows_write_buffer,
                   rows_write_buffer_size, temp, rows, it, scanned,
                   inserted, fresh, explicit_flush>>

\* Mutant of File::remove: the name stays on disk.
FileRemove_M(files, path) == files

\* File::remove: unlink(fd_to_path[fd]) takes the name off the disk.
FileRemove(files, path) == [files EXCEPT ![path] = Absent]

\* table.remove(): rows_file.remove() is unlink(fd_to_path[fd]), then
\* remove_dir(root_path) is rmdir(root_path); either one failing is
\* die_errno.  The directory of a persistent table holds the rows file only;
\* no directory is named as the root_path of a temporary table.
Remove ==
    /\ OnDisk
    /\ status = "open"
    /\ NoScan
    /\ last_op' = "remove"
    /\ IF unlinked
       THEN \* unlink: no such file
            /\ Abort
            /\ Outcome(Failed("unlink"))
            /\ UNCHANGED <<dir_exists, fs, unlinked>>
       ELSE IF temp
       THEN \* unlink succeeds, rmdir("dummy") fails
            /\ fs' = FileRemove(fs, fd_to_path)
            /\ unlinked' = TRUE
            /\ Abort
            /\ Outcome(Failed("rmdir"))
            /\ UNCHANGED dir_exists
       ELSE /\ Elsewhere
            /\ fs' = FileRemove(fs, fd_to_path)
            /\ orphan' = fs[fd_to_path].data
            /\ unlinked' = TRUE
            /\ dir_exists' = FALSE
            /\ EndScan
            /\ dtor' = NoDtor
            /\ UNCHANGED <<kind, status, fd_open, fd_to_path, root_path,
                           rows_file, rows_write_buffer, buffer_allocated,
                           rows_write_buffer_size, temp, rows, inserted,
                           fresh, explicit_flush>>

\* The system call syscall of a table operation fails (fstat in size, pread
\* in read or in a scan, lseek or write in flush_write_buffer, ftruncate in
\* clear): the operation calls die_errno before it changes the file.
Dies(syscall) ==
    /\ OnDisk
    /\ status = "open"
    /\ Abort
    /\ last_op' = "die"
    /\ Outcome(Failed(syscall))
    /\ UNCHANGED <<dir_exists, fs, unlinked>>

\* One of these system calls fails; which one it was makes no difference to
\* what the process leaves behind.
DieErrno ==
    /\ status = "open"
    /\ Dies("any")

\* Mutant of the destructor: pending writes are not flushed.
DestructorData_M(data, buf, n, is_temp) ==
    IF is_temp THEN FileClear(data) ELSE data

\* The file bytes the destructor leaves: flush_write_buffer for a table
\* that is not temporary and has buffered records, File::clear for a
\* temporary table.
DestructorData(data, buf, n, is_temp) ==
    LET flushed == IF ~is_temp /\ n > 0
                   THEN OnDiskTable_flush_write_buffer(data, buf, n).data
                   ELSE data
    IN  IF is_temp THEN FileClear(flushed) ELSE flushed

\* OnDiskTable::~OnDiskTable: the table object goes out of scope (and any
\* iterator over it before it).  The destructor runs to its end; failure is
\* what became of its system calls.
Destructor(failure) ==
    /\ OnDisk
    /\ status = "open"
    /\ status' = "none"
    /\ dtor' = [valid |-> TRUE, removed |-> unlinked, path |-> fd_to_path,
                buffered |-> rows_write_buffer_size, seq |-> Logical]
    /\ IF rows_file = -1
       THEN UNCHANGED <<fs, fd_open, buffer_allocated>>
       ELSE /\ fs' = IF unlinked THEN fs
                     ELSE [fs EXCEPT ![fd_to_path].data =
                              DestructorData(RowsData, rows_write_buffer,
                                             rows_write_buffer_size, temp)]
            /\ buffer_allocated' = FALSE
            /\ fd_open' = FALSE
    /\ orphan' = << >>
    /\ unlinked' = FALSE
    /\ root_path' = ""
    /\ rows_file' = -1
    /\ rows_write_buffer' = FreedBuffer
    /\ rows_write_buffer_size' = 0
    /\ temp' = FALSE
    /\ it' = NoIterator
    /\ scanned' = << >>
    /\ inserted' = << >>
    /\ fresh' = FALSE
    /\ explicit_flush' = FALSE
    /\ last_op' = "destroy"
    /\ Outcome(failure)
    /\ UNCHANGED <<kind, dir_exists, fd_to_path, rows>>

\* The destructor, all system calls of which succeed.
Destroy ==
    /\ status = "open"
    /\ Destructor(NoFailure)

\* for (const Record &record : table): begin().
Begin ==
    /\ OnDisk
    /\ status = "open"
    /\ it' = IteratorBegin(RowsData, rows_write_buffer_size)
    /\ scanned' = << >>
    /\ last_op' = "begin"
    /\ Elsewhere
    /\ dtor' = NoDtor
    /\ UNCHANGED <<kind, status, tableVars, rows, inserted, fresh,
                   explicit_flush>>

\* One turn of the loop: it != end(), the body takes *it, then ++it.
Next_ ==
    /\ OnDisk
    /\ status = "open"
    /\ it.phase \in {"ROWS_FILE", "ROWS_BUFFER"}
    /\ scanned' = Append(scanned, Deref(it, rows_write_buffer))
    /\ it' = Increment(it, RowsData, rows_write_buffer_size)
    /\ last_op' = "next"
    /\ Elsewhere
    /\ UNCHANGED <<kind, status, tableVars, rows, inserted, fresh,
                   explicit_flush, dtor>>

\* table.insert(row) on an in-memory table.
MemInsert ==
    /\ kind = "memory"
    /\ Size < MaxRecords
    /\ \E row \in RecordValues :
          /\ rows' = InMemoryTable_insert(rows, row)
          /\ inserted' = Append(inserted, row)
    /\ last_op' = "insert"
    /\ UNCHANGED <<kind, status, tableVars, scanVars, fresh, explicit_flush,
                   dtor>>
    /\ Elsewhere

\* table.clear() on an in-memory table.
MemClear ==
    /\ kind = "memory"
    /\ rows' = InMemoryTable_clear(rows)
    /\ inserted' = << >>
    /\ fresh' = TRUE
    /\ last_op' = "clear"
    /\ UNCHANGED <<kind, status, tableVars, scanVars, explicit_flush, dtor>>
    /\ Elsewhere

Next ==
    \/ Open
    \/ CreateTemp
    \/ Insert
    \/ FlushWriteBuffer
    \/ Clear
    \/ Remove
    \/ Destroy
    \/ DieErrno
    \/ Begin
    \/ Next_
    \/ MemInsert
    \/ MemClear

Spec == Init /\ [][Next]_vars

TypeOK ==
    /\ status \in {"none", "open", "aborted"}
    /\ rows_write_buffer_size \in 0..ENTRIES_PER_BLOCK
    /\ it.phase \in {"NONE", "ROWS_FILE", "ROWS_BUFFER", "END"}

(* ------------------------- what the claims speak of -------------------- *)

\* table.read(index) on the table the program uses.
Read(index) ==
    IF OnDisk THEN OnDiskTable_read(RowsData, rows_write_buffer, index)
    ELSE InMemoryTable_read(rows, index)

\* The bytes of a sequence of records laid back-to-back.
RecordsBytes(seq) == BufferBytes(seq, Len(seq))

\* The persisted number of records of the on-disk table.
Persisted == FileSize(RowsData) \div SizeofRecord

Alive == status = "open"

(* ------------------------------- claims -------------------------------- *)

\* C1: round trip.  On a table that was cleared (or made empty) and then
\* received the records of `inserted`, with flush_write_buffer calls in
\* between, size() is the number of inserts and read(i) returns the i-th
\* inserted record, for the on-disk and for the in-memory table.
C1_RoundTrip ==
    (Alive /\ fresh) =>
        /\ Size = Len(inserted)
        /\ \A i \in 1..Len(inserted) : Read(i - 1) = inserted[i]

\* C1 witness: ENTRIES_PER_BLOCK + 1 inserts and no explicit flush: one
\* block in the file, the last record in the buffer, all read back.
C1_Witness ==
    /\ OnDisk /\ Alive /\ fresh /\ ~explicit_flush
    /\ Len(inserted) = ENTRIES_PER_BLOCK + 1
    /\ Persisted = ENTRIES_PER_BLOCK
    /\ rows_write_buffer_size = 1
    /\ Read(0) # Read(ENTRIES_PER_BLOCK)
    /\ \A i \in 1..Len(inserted) : Read(i - 1) = inserted[i]

\* C2: a scan of an on-disk table yields read(0), read(1), ... in order:
\* while it runs it has yielded a proper prefix, at the end all size()
\* records, each once.
C2_ScanYieldsReads ==
    (OnDisk /\ Alive /\ it.phase # "NONE") =>
        /\ Len(scanned) <= Size
        /\ \A i \in 1..Len(scanned) : scanned[i] = Read(i - 1)
        /\ (it.phase = "END") <=> (Len(scanned) = Size)

\* C2 witness: a finished scan over more than one block in the file, the
\* last of them partial (an explicit flush), followed by buffered records.
C2_Witness ==
    /\ OnDisk /\ Alive /\ it.phase = "END"
    /\ FileSize(RowsData) > BLOCK_SIZE
    /\ FileSize(RowsData) % BLOCK_SIZE # 0
    /\ rows_write_buffer_size > 0
    /\ Len(scanned) = Size
    /\ \E i, j \in 1..Len(scanned) : scanned[i] # scanned[j]

\* C3: size() is rows_file.size() / sizeof(Record) + buffer count, it is the
\* number of inserts since the table was cleared or opened empty, and every
\* insert, flushing or not, adds exactly 1 to it.
C3_SizeCountsInserts ==
    /\ [](  (OnDisk /\ Alive) =>
              /\ Size = Persisted + rows_write_buffer_size
              /\ fresh => Size = Len(inserted))
    /\ [][ (OnDisk /\ last_op' = "insert") => Size' = Size + 1 ]_vars

\* C3 witness: the insert that has just run flushed the buffer.
C3_Witness ==
    /\ OnDisk /\ Alive /\ fresh /\ last_op = "insert"
    /\ rows_write_buffer_size = 0
    /\ Persisted = 2 * ENTRIES_PER_BLOCK
    /\ Size = Len(inserted)

\* C4: between operations the buffer holds fewer than ENTRIES_PER_BLOCK
\* records; an insert that makes the count ENTRIES_PER_BLOCK flushes a block
\* to the file and leaves the count 0, any other insert adds one to it.
C4_BufferBelowBlock ==
    /\ []( (OnDisk /\ Alive) =>
              /\ 0 <= rows_write_buffer_size
              /\ rows_write_buffer_size < ENTRIES_PER_BLOCK )
    /\ [][ (OnDisk /\ last_op' = "insert") =>
              IF rows_write_buffer_size + 1 = ENTRIES_PER_BLOCK
              THEN /\ rows_write_buffer_size' = 0
                   /\ FileSize(RowsData') = FileSize(RowsData) + BLOCK_SIZE
              ELSE /\ rows_write_buffer_size' = rows_write_buffer_size + 1
                   /\ RowsData' = RowsData ]_vars

\* C4 witness: one more insert would fill the buffer.
C4_Witness ==
    /\ OnDisk /\ Alive /\ last_op = "insert"
    /\ rows_write_buffer_size = ENTRIES_PER_BLOCK - 1
    /\ Persisted > 0

\* C5: from an empty on-disk table and without an explicit flush, fewer than
\* ENTRIES_PER_BLOCK inserts leave the file empty and exactly
\* ENTRIES_PER_BLOCK inserts leave one block in the file and nothing in the
\* buffer; an explicit flush after one insert leaves exactly one record in
\* the file.
C5_FlushBoundary ==
    (OnDisk /\ Alive /\ fresh) =>
        /\ (~explicit_flush /\ Len(inserted) < ENTRIES_PER_BLOCK)
              => FileSize(RowsData) = 0
        /\ (~explicit_flush /\ Len(inserted) = ENTRIES_PER_BLOCK)
              => /\ FileSize(RowsData) = ENTRIES_PER_BLOCK * SizeofRecord
                 /\ rows_write_buffer_size = 0
        /\ (last_op = "flush" /\ Len(inserted) = 1)
              => FileSize(RowsData) = SizeofRecord

\* C5 witness: exactly ENTRIES_PER_BLOCK inserts, flushed by the last one.
C5_Witness ==
    /\ OnDisk /\ Alive /\ fresh /\ ~explicit_flush
    /\ last_op = "insert"
    /\ Len(inserted) = ENTRIES_PER_BLOCK
    /\ FileSize(RowsData) = BLOCK_SIZE
    /\ rows_write_buffer_size = 0

\* C6: flush_write_buffer appends the buffered records in order to the file
\* and sets the count to 0; size() and every read(i) stay as they were; with
\* an empty buffer it changes neither file nor buffer, so a flush right after
\* a flush changes nothing.
C6_FlushEffect ==
    [][ (last_op' = "flush") =>
          /\ RowsData' = RowsData
                \o RecordsBytes(SubSeq(rows_write_buffer, 1,
                                       rows_write_buffer_size))
          /\ rows_write_buffer_size' = 0
          /\ Size' = Size
          /\ Logical' = Logical
          /\ (rows_write_buffer_size = 0 \/ last_op = "flush")
                => UNCHANGED tableVars ]_vars

\* C6 witness: an explicit flush has put a partial block behind a full one.
C6_Witness ==
    /\ OnDisk /\ Alive /\ last_op = "flush"
    /\ rows_write_buffer_size = 0
    /\ FileSize(RowsData) > BLOCK_SIZE
    /\ FileSize(RowsData) % BLOCK_SIZE # 0

\* C7 as stated: once the destructor of a persistent table has run, the rows
\* file holds the records the table had, back-to-back, and a table opened on
\* the same path has the size and the records of the destroyed one.
C7_Original ==
    /\ (kind = "persistent" /\ status = "none" /\ dtor.valid) =>
          /\ fs[dtor.path].exists
          /\ fs[dtor.path].data = RecordsBytes(dtor.seq)
    /\ (kind = "persistent" /\ Alive /\ last_op = "open" /\ dtor.valid) =>
          /\ Size = Len(dtor.seq)
          /\ \A i \in 1..Len(dtor.seq) : Read(i - 1) = dtor.seq[i]

\* C7 amended: the same, for a persistent table on which remove() was not
\* called before its destructor ran.
C7_FlushOnDestroy ==
    /\ (kind = "persistent" /\ status = "none" /\ dtor.valid
            /\ ~dtor.removed) =>
          /\ fs[dtor.path].exists
          /\ fs[dtor.path].data = RecordsBytes(dtor.seq)
    /\ (kind = "persistent" /\ Alive /\ last_op = "open" /\ dtor.valid
            /\ ~dtor.removed) =>
          /\ Size = Len(dtor.seq)
          /\ \A i \in 1..Len(dtor.seq) : Read(i - 1) = dtor.seq[i]

\* C7 witness: a table destroyed with records in the file and in the buffer
\* has been opened again and holds all of them in the file.
C7_Witness ==
    /\ kind = "persistent" /\ Alive /\ last_op = "open"
    /\ dtor.valid /\ ~dtor.removed
    /\ dtor.buffered > 0
    /\ Len(dtor.seq) > ENTRIES_PER_BLOCK
    /\ Persisted = Len(dtor.seq)
    /\ rows_write_buffer_size = 0

\* C8: after the destructor of a temporary table, no file is left at the
\* path of its backing file.
C8_TempFileGone ==
    (kind = "temporary" /\ status = "none" /\ dtor.valid) =>
        ~fs[dtor.path].exists

\* C9: however the lifetime of a table ends, by its destructor or by an
\* error during use, the descriptor is closed, the buffer released, the
\* buffered records of a persistent table are in the rows file and the file
\* of a temporary table is empty.
C9_CleanupOnEveryPath ==
    LET destroyed == status = "none" /\ dtor.valid
        died      == status = "aborted"
    IN  (OnDisk /\ (destroyed \/ died)) =>
           /\ ~fd_open
           /\ ~buffer_allocated
           /\ (destroyed /\ kind = "persistent" /\ ~dtor.removed) =>
                 fs[dtor.path].data = RecordsBytes(dtor.seq)
           /\ (destroyed /\ kind = "temporary") =>
                 fs[dtor.path].data = << >>
           /\ (died /\ kind = "persistent" /\ ~unlinked) =>
                 fs[fd_to_path].data = RecordsBytes(Logical)
           /\ (died /\ kind = "temporary" /\ ~unlinked) =>
                 fs[fd_to_path].data = << >>

\* C10: after clear() the table has size 0, an on-disk table an empty file
\* and an empty buffer; a clear() right after a clear() changes nothing; the
\* first insert after a clear() is read(0) of a table of size 1.
C10_Clear ==
    /\ []( (Alive /\ last_op = "clear") =>
              /\ Size = 0
              /\ OnDisk => /\ FileSize(RowsData) = 0
                           /\ rows_write_buffer_size = 0 )
    /\ [][ (last_op = "clear" /\ last_op' = "clear") =>
              UNCHANGED <<tableVars, rows>> ]_vars
    /\ [][ (last_op = "clear" /\ last_op' = "insert") =>
              /\ Size' = 1
              /\ Read(0)' = inserted'[1] ]_vars

\* C10 witness: an on-disk table that had flushed a full block has been
\* cleared.
C10_Witness ==
    /\ OnDisk /\ Alive /\ last_op = "clear"
    /\ Size = 0
    /\ \A k \in 1..ENTRIES_PER_BLOCK : rows_write_buffer[k] # Uninit

(* ------------------- tables as values: the algorithms ------------------ *)

\* A vector of test records holds at most this many records where one table
\* is filtered or two tables are compared.
MaxRows == 3

\* The vector of the tables A holds at most this many records where two
\* tables are joined.
MaxJoinRowsA == 2

\* The vector of the tables B holds at most this many records where two
\* tables are joined.
MaxJoinRowsB == 2

\* The storage a table operand has.
Kinds == {"memory", "disk"}

\* The field of a record the predicates of the callers look at (such as
\* record.age, product.id, order.product_id): Rec(v) holds v.
ValueOf(record) == (record[1] - 1) \div 10

\* InMemoryTable(const std::vector<Record> &rows).
MemTable(rs) == [NoTable EXCEPT !.kind = "memory", !.rows = rs]

\* OnDiskTable(file, root_path, temp) on an open file with the bytes data:
\* rows_write_buffer = new Record[ENTRIES_PER_BLOCK], rows_write_buffer_size
\* = 0.  pos is the file offset of the descriptor, which open() leaves at 0.
DiskTable(path, data) ==
    [kind |-> "disk", rows |-> << >>, path |-> path, data |-> data,
     buf |-> [k \in 1..ENTRIES_PER_BLOCK |-> Uninit], n |-> 0, pos |-> 0]

\* The rows files of the on-disk tables A and B (PRODUCTS_PATH, ORDERS_PATH).
PathA == <<"rows", 1>>

PathB == <<"rows", 2>>

\* table.size().
TableSize(t) ==
    IF t.kind = "disk" THEN OnDiskTable_size(t.data, t.n)
    ELSE InMemoryTable_size(t.rows)

\* table.read(index).
TableRead(t, index) ==
    IF t.kind = "disk" THEN OnDiskTable_read(t.data, t.buf, index)
    ELSE InMemoryTable_read(t.rows, index)

\* table.insert(record).  Where the insert flushes the buffer, File::append
\* leaves the file offset at the end of the file.
TableInsert(t, record) ==
    IF t.kind = "disk"
    THEN LET res == OnDiskTable_insert(t.data, t.buf, t.n, record)
         IN  [t EXCEPT !.data = res.data, !.buf = res.buf, !.n = res.n,
                       !.pos = IF t.n + 1 = ENTRIES_PER_BLOCK
                               THEN FileSize(res.data) ELSE t.pos]
    ELSE [t EXCEPT !.rows = InMemoryTable_insert(t.rows, record)]

\* table.flush_write_buffer(): File::append seeks to the end of the file and
\* writes there, which leaves the file offset at the end of the file.
TableFlush(t) ==
    LET res == OnDiskTable_flush_write_buffer(t.data, t.buf, t.n)
    IN  [t EXCEPT !.data = res.data, !.buf = res.buf, !.n = res.n,
                  !.pos = FileSize(res.data)]

\* The records read(0), ..., read(size() - 1) of a table.
TableSeq(t) == [i \in 1..TableSize(t) |-> TableRead(t, i - 1)]

\* for (const Record &record : table) on an on-disk table: the records the
\* loop body gets, from the iterator at i to end().
RECURSIVE ScanFrom(_, _)
ScanFrom(i, t) ==
    IF i.phase \in {"ROWS_FILE", "ROWS_BUFFER"}
    THEN <<Deref(i, t.buf)>> \o ScanFrom(Increment(i, t.data, t.n), t)
    ELSE << >>

OnDiskTable_scan(t) == ScanFrom(IteratorBegin(t.data, t.n), t)

\* for (const Record &record : table) on an in-memory table: rows.begin()
\* to rows.end().
InMemoryTable_scan(t) == t.rows

(* ------------------------- filter and filter_map ----------------------- *)

\* The predicates the callers pass as filter.
Filters == {"none", "low", "all"}

\* filter(record).
EvalFilter(filter, record) ==
    CASE filter = "none" -> FALSE
      [] filter = "low"  -> ValueOf(record) = 1
      [] OTHER           -> TRUE

\* map(record): a record of another type, made of a field of the record.
MapRecord(record) == Rec(ValueOf(record) + NumValues)

\* The loop of filter_into_memory and filter_into_disk from the k-th record
\* of the scan on: if (filter(record)) table.insert(record).
RECURSIVE FilterLoop(_, _, _, _)
FilterLoop(records, k, filter, table) ==
    IF k > Len(records) THEN table
    ELSE FilterLoop(records, k + 1, filter,
                    IF EvalFilter(filter, records[k])
                    THEN TableInsert(table, records[k])
                    ELSE table)

\* The loop of filter_map_into_memory and filter_map_into_disk:
\* if (filter(record)) table.insert(map(record)).  applied keeps the records
\* map was called with.
RECURSIVE FilterMapLoop(_, _, _, _)
FilterMapLoop(records, k, filter, acc) ==
    IF k > Len(records) THEN acc
    ELSE FilterMapLoop(records, k + 1, filter,
                       IF EvalFilter(filter, records[k])
                       THEN [table   |-> TableInsert(acc.table,
                                                     MapRecord(records[k])),
                             applied |-> Append(acc.applied, records[k])]
                       ELSE acc)

\* OnDiskTable::filter_into_memory(filter).
OnDiskTable_filter_into_memory(t, filter) ==
    FilterLoop(OnDiskTable_scan(t), 1, filter, MemTable(<< >>))

\* Mutant of OnDiskTable::filter_into_disk: the loop starts at the second
\* record of the scan.
OnDiskTable_filter_into_disk_M(t, filter, created) ==
    FilterLoop(OnDiskTable_scan(t), 2, filter, created)

\* OnDiskTable::filter_into_disk(filter); created is the table create_temp
\* returned.
OnDiskTable_filter_into_disk(t, filter, created) ==
    FilterLoop(OnDiskTable_scan(t), 1, filter, created)

\* OnDiskTable::filter_map_into_memory(filter, map).
OnDiskTable_filter_map_into_memory(t, filter) ==
    FilterMapLoop(OnDiskTable_scan(t), 1, filter,
                  [table |-> MemTable(<< >>), applied |-> << >>])

\* OnDiskTable::filter_map_into_disk(filter, map).
OnDiskTable_filter_map_into_disk(t, filter, created) ==
    FilterMapLoop(OnDiskTable_scan(t), 1, filter,
                  [table |-> created, applied |-> << >>])

\* InMemoryTable::filter_into_memory(filter).
InMemoryTable_filter_into_memory(t, filter) ==
    FilterLoop(InMemoryTable_scan(t), 1, filter, MemTable(<< >>))

\* InMemoryTable::filter_into_disk(filter).
InMemoryTable_filter_into_disk(t, filter, created) ==
    FilterLoop(InMemoryTable_scan(t), 1, filter, created)

\* Mutant of InMemoryTable::filter_map_into_memory: every record is mapped
\* and inserted.
InMemoryTable_filter_map_into_memory_M(t, filter) ==
    FilterMapLoop(InMemoryTable_scan(t), 1, "all",
                  [table |-> MemTable(<< >>), applied |-> << >>])

\* InMemoryTable::filter_map_into_memory(filter, map).
InMemoryTable_filter_map_into_memory(t, filter) ==
    FilterMapLoop(InMemoryTable_scan(t), 1, filter,
                  [table |-> MemTable(<< >>), applied |-> << >>])

\* InMemoryTable::filter_map_into_disk(filter, map).
InMemoryTable_filter_map_into_disk(t, filter, created) ==
    FilterMapLoop(InMemoryTable_scan(t), 1, filter,
                  [table |-> created, applied |-> << >>])

(* ------------------------------- joins --------------------------------- *)

\* The predicates the callers pass as the join filter (OutRecord::is_match
\* by default, such as order.product_id == product.id).
Matches == {"eq", "lt"}

\* filter(row_a, row_b).
IsMatch(match, row_a, row_b) ==
    IF match = "eq" THEN ValueOf(row_a) = ValueOf(row_b)
    ELSE ValueOf(row_a) < ValueOf(row_b)

\* map(row_a, row_b): OutRecord(a, b), made of the fields of both rows.
Combine(row_a, row_b) ==
    Rec(ValueOf(row_a) * (NumValues + 1) + ValueOf(row_b))

\* The inner loop of a join for one row of the outer table, from the j-th
\* row of the inner table on: if (filter(row_a, row_b))
\* out.insert(map(row_a, row_b)).  evals counts the calls of filter.
RECURSIVE InnerLoop(_, _, _, _, _, _)
InnerLoop(row, inner, j, row_is_a, match, acc) ==
    IF j > Len(inner) THEN acc
    ELSE LET row_a == IF row_is_a THEN row ELSE inner[j]
             row_b == IF row_is_a THEN inner[j] ELSE row
         IN  InnerLoop(row, inner, j + 1, row_is_a, match,
                 [acc EXCEPT
                    !.table = IF IsMatch(match, row_a, row_b)
                              THEN TableInsert(@, Combine(row_a, row_b))
                              ELSE @,
                    !.evals = @ + 1])

\* The outer loop of a join from the i-th row of the outer table on; every
\* turn starts a scan of the inner table.
RECURSIVE OuterLoop(_, _, _, _, _, _)
OuterLoop(outer, inner, i, outer_is_a, match, acc) ==
    IF i > Len(outer) THEN acc
    ELSE OuterLoop(outer, inner, i + 1, outer_is_a, match,
                   InnerLoop(outer[i], inner, 1, outer_is_a, match,
                             [acc EXCEPT !.inner_scans = @ + 1]))

\* for (row_a : a) for (row_b : b): the table out after the loops, the
\* number of filter calls and of scans started on each operand.
JoinOuterA(rows_a, rows_b, match, table) ==
    LET r == OuterLoop(rows_a, rows_b, 1, TRUE, match,
                       [table |-> table, evals |-> 0, inner_scans |-> 0])
    IN  [table |-> r.table, evals |-> r.evals, scans_a |-> 1,
         scans_b |-> r.inner_scans]

\* for (row_b : b) for (row_a : a).
JoinOuterB(rows_a, rows_b, match, table) ==
    LET r == OuterLoop(rows_b, rows_a, 1, FALSE, match,
                       [table |-> table, evals |-> 0, inner_scans |-> 0])
    IN  [table |-> r.table, evals |-> r.evals, scans_a |-> r.inner_scans,
         scans_b |-> 1]

\* Mutant of bnl_join_into_disk(OnDiskTable, OnDiskTable): the rows of b are
\* taken as rows of a and the rows of a as rows of b.
bnl_join_into_disk_dd_M(a, b, match, created) ==
    JoinOuterA(OnDiskTable_scan(b), OnDiskTable_scan(a), match, created)

\* bnl_join_into_disk(const OnDiskTable &a, const OnDiskTable &b).
bnl_join_into_disk_dd(a, b, match, created) ==
    JoinOuterA(OnDiskTable_scan(a), OnDiskTable_scan(b), match, created)

\* bnl_join_into_disk(const InMemoryTable &a, const InMemoryTable &b).
bnl_join_into_disk_mm(a, b, match, created) ==
    JoinOuterA(InMemoryTable_scan(a), InMemoryTable_scan(b), match, created)

\* Mutant of bnl_join_into_disk(InMemoryTable, OnDiskTable): the in-memory
\* table is the outer loop.
bnl_join_into_disk_md_M(a, b, match, created) ==
    JoinOuterA(InMemoryTable_scan(a), OnDiskTable_scan(b), match, created)

\* bnl_join_into_disk(const InMemoryTable &a, const OnDiskTable &b).
bnl_join_into_disk_md(a, b, match, created) ==
    JoinOuterB(InMemoryTable_scan(a), OnDiskTable_scan(b), match, created)

\* bnl_join_into_disk(const OnDiskTable &a, const InMemoryTable &b).
bnl_join_into_disk_dm(a, b, match, created) ==
    JoinOuterA(OnDiskTable_scan(a), InMemoryTable_scan(b), match, created)

\* Mutant of bnl_join_into_memory(OnDiskTable, OnDiskTable): b is the outer
\* loop.
bnl_join_into_memory_dd_M(a, b, match) ==
    JoinOuterB(OnDiskTable_scan(a), OnDiskTable_scan(b), match,
               MemTable(<< >>))

\* bnl_join_into_memory(const OnDiskTable &a, const OnDiskTable &b).
bnl_join_into_memory_dd(a, b, match) ==
    JoinOuterA(OnDiskTable_scan(a), OnDiskTable_scan(b), match,
               MemTable(<< >>))

\* bnl_join_into_memory(const InMemoryTable &a, const InMemoryTable &b).
bnl_join_into_memory_mm(a, b, match) ==
    JoinOuterA(InMemoryTable_scan(a), InMemoryTable_scan(b), match,
               MemTable(<< >>))

\* Mutant of bnl_join_into_memory(InMemoryTable, OnDiskTable): the scan of b
\* misses the rows in the write buffer of b.
bnl_join_into_memory_md_M(a, b, match) ==
    JoinOuterB(InMemoryTable_scan(a),
               SubSeq(OnDiskTable_scan(b), 1,
                      FileSize(b.data) \div SizeofRecord),
               match, MemTable(<< >>))

\* bnl_join_into_memory(const InMemoryTable &a, const OnDiskTable &b).
bnl_join_into_memory_md(a, b, match) ==
    JoinOuterB(InMemoryTable_scan(a), OnDiskTable_scan(b), match,
               MemTable(<< >>))

\* Mutant of bnl_join_into_memory(OnDiskTable, InMemoryTable): the
\* in-memory table is the outer loop.
bnl_join_into_memory_dm_M(a, b, match) ==
    JoinOuterB(OnDiskTable_scan(a), InMemoryTable_scan(b), match,
               MemTable(<< >>))

\* bnl_join_into_memory(const OnDiskTable &a, const InMemoryTable &b).
bnl_join_into_memory_dm(a, b, match) ==
    JoinOuterA(OnDiskTable_scan(a), InMemoryTable_scan(b), match,
               MemTable(<< >>))

\* Overload resolution of bnl_join_into_disk(a, b) by the types of a and b.
bnl_join_into_disk(a, b, match, created) ==
    CASE a.kind = "disk"   /\ b.kind = "disk"   ->
            bnl_join_into_disk_dd(a, b, match, created)
      [] a.kind = "memory" /\ b.kind = "memory" ->
            bnl_join_into_disk_mm(a, b, match, created)
      [] a.kind = "memory" /\ b.kind = "disk"   ->
            bnl_join_into_disk_md(a, b, match, created)
      [] OTHER ->
            bnl_join_into_disk_dm(a, b, match, created)

\* Overload resolution of bnl_join_into_memory(a, b).
bnl_join_into_memory(a, b, match) ==
    CASE a.kind = "disk"   /\ b.kind = "disk"   ->
            bnl_join_into_memory_dd(a, b, match)
      [] a.kind = "memory" /\ b.kind = "memory" ->
            bnl_join_into_memory_mm(a, b, match)
      [] a.kind = "memory" /\ b.kind = "disk"   ->
            bnl_join_into_memory_md(a, b, match)
      [] OTHER ->
            bnl_join_into_memory_dm(a, b, match)

(* ---------------------------- table equality --------------------------- *)

\* The loop of operator==: while (it1 != a.end() && it2 != b.end()), return
\* false at the first pair with !(*it1 == *it2), true after the loop.
RECURSIVE EqualLoop(_, _, _)
EqualLoop(rows_a, rows_b, k) ==
    IF k > Len(rows_a) \/ k > Len(rows_b) THEN TRUE
    ELSE IF rows_a[k] # rows_b[k] THEN FALSE
    ELSE EqualLoop(rows_a, rows_b, k + 1)

\* operator==(const InMemoryTable &a, const InMemoryTable &b).
Equals_mm(a, b) ==
    IF InMemoryTable_size(a.rows) # InMemoryTable_size(b.rows) THEN FALSE
    ELSE EqualLoop(InMemoryTable_scan(a), InMemoryTable_scan(b), 1)

\* operator==(const OnDiskTable &a, const OnDiskTable &b).
Equals_dd(a, b) ==
    IF OnDiskTable_size(a.data, a.n) # OnDiskTable_size(b.data, b.n)
    THEN FALSE
    ELSE EqualLoop(OnDiskTable_scan(a), OnDiskTable_scan(b), 1)

\* Mutant of operator==(InMemoryTable, OnDiskTable): the loop stops before
\* the last pair of records.
Equals_md_M(a, b) ==
    IF InMemoryTable_size(a.rows) # OnDiskTable_size(b.data, b.n) THEN FALSE
    ELSE EqualLoop(SubSeq(InMemoryTable_scan(a), 1,
                          InMemoryTable_size(a.rows) - 1),
                   OnDiskTable_scan(b), 1)

\* operator==(const InMemoryTable &a, const OnDiskTable &b).
Equals_md(a, b) ==
    IF InMemoryTable_size(a.rows) # OnDiskTable_size(b.data, b.n) THEN FALSE
    ELSE EqualLoop(InMemoryTable_scan(a), OnDiskTable_scan(b), 1)

\* operator==(const OnDiskTable &a, const InMemoryTable &b): return b == a.
Equals_dm(a, b) == Equals_md(b, a)

\* Overload resolution of a == b.
Equals(a, b) ==
    CASE a.kind = "memory" /\ b.kind = "memory" -> Equals_mm(a, b)
      [] a.kind = "disk"   /\ b.kind = "disk"   -> Equals_dd(a, b)
      [] a.kind = "memory" /\ b.kind = "disk"   -> Equals_md(a, b)
      [] OTHER                                  -> Equals_dm(a, b)

(* ------------------- the program that runs the algorithms -------------- *)

\* The vectors of at most n records.
Vectors(n) == UNION {[1..k -> RecordValues] : k \in 0..n}

\* What the program of the algorithms does not touch: the single table of
\* the operations above.
tableWorld ==
    <<kind, status, dir_exists, unlinked, orphan, fd_open, fd_to_path,
      root_path, rows_file, rows_write_buffer, buffer_allocated,
      rows_write_buffer_size, temp, rows, scanVars, histVars, got, sys,
      copied, moved, snapshot, file_name>>

\* The program holds two vectors of records; of each it makes an in-memory
\* table (the constructor copies the vector) and an on-disk table (open,
\* clear, then one insert per record).  Here the on-disk tables are open and
\* cleared; the temporary files are as the disk is before the first table.
AlgInit(max_a, max_b) ==
    /\ TableInit
    /\ kind = "memory"
    /\ sys = NoFailure
    /\ copied = NoCopy
    /\ got = NoRead
    /\ test_a \in Vectors(max_a)
    /\ test_b \in Vectors(max_b)
    /\ a_disk = DiskTable(PathA, << >>)
    /\ b_disk = DiskTable(PathB, << >>)
    /\ out = NoTable
    /\ call = NoCall

\* The operand A or B of a call, with the storage kind k.
Operand(name, k) ==
    IF name = "A"
    THEN IF k = "memory" THEN MemTable(test_a) ELSE a_disk
    ELSE IF k = "memory" THEN MemTable(test_b) ELSE b_disk

\* Both on-disk tables hold all records of their vectors.
Filled ==
    /\ TableSize(a_disk) = Len(test_a)
    /\ TableSize(b_disk) = Len(test_b)

\* No result of an algorithm is held.
NoResult == call.op = "none"

\* a_disk.insert(record) for the next record of the vector.
FillA ==
    /\ NoResult
    /\ TableSize(a_disk) < Len(test_a)
    /\ a_disk' = TableInsert(a_disk, test_a[TableSize(a_disk) + 1])
    /\ UNCHANGED <<tableWorld, fs, test_a, test_b, b_disk, out, call>>

\* a_disk.flush_write_buffer().
FlushA ==
    /\ NoResult
    /\ a_disk' = TableFlush(a_disk)
    /\ UNCHANGED <<tableWorld, fs, test_a, test_b, b_disk, out, call>>

\* b_disk.insert(record) for the next record of the vector.
FillB ==
    /\ NoResult
    /\ TableSize(b_disk) < Len(test_b)
    /\ b_disk' = TableInsert(b_disk, test_b[TableSize(b_disk) + 1])
    /\ UNCHANGED <<tableWorld, fs, test_a, test_b, a_disk, out, call>>

\* b_disk.flush_write_buffer().
FlushB ==
    /\ NoResult
    /\ b_disk' = TableFlush(b_disk)
    /\ UNCHANGED <<tableWorld, fs, test_a, test_b, a_disk, out, call>>

\* OnDiskTable::create_temp(): File::create_temp opens the file of the name
\* it drew with O_RDWR | O_CREAT, and the table is constructed around it.
CreateTempTable(path) == DiskTable(path, fs[path].data)

\* An algorithm returns table; the file of an on-disk result holds its
\* bytes.
Return(table, c) ==
    /\ out' = table
    /\ fs' = IF table.kind = "disk"
             THEN [fs EXCEPT ![table.path] =
                      [exists |-> TRUE, data |-> table.data]]
             ELSE fs
    /\ call' = c
    /\ UNCHANGED <<tableWorld, test_a, test_b, a_disk, b_disk>>

\* auto filtered_table = table.filter_into_memory(filter).
FilterIntoMemory ==
    /\ NoResult /\ Filled
    /\ \E k \in Kinds, filter \in Filters :
          LET t == Operand("A", k)
          IN  Return(IF k = "disk"
                     THEN OnDiskTable_filter_into_memory(t, filter)
                     ELSE InMemoryTable_filter_into_memory(t, filter),
                     [NoCall EXCEPT !.op = "filter_into_memory", !.a = k,
                                    !.filter = filter])

\* auto filtered_table = table.filter_into_disk(filter).
FilterIntoDisk ==
    /\ NoResult /\ Filled
    /\ \E k \in Kinds, filter \in Filters, path \in TempPaths :
          LET t       == Operand("A", k)
              created == CreateTempTable(path)
          IN  Return(IF k = "disk"
                     THEN OnDiskTable_filter_into_disk(t, filter, created)
                     ELSE InMemoryTable_filter_into_disk(t, filter, created),
                     [NoCall EXCEPT !.op = "filter_into_disk", !.a = k,
                                    !.filter = filter])

\* auto table = table.filter_map_into_memory<OutRecord>(filter, map).
FilterMapIntoMemory ==
    /\ NoResult /\ Filled
    /\ \E k \in Kinds, filter \in Filters :
          LET t == Operand("A", k)
              r == IF k = "disk"
                   THEN OnDiskTable_filter_map_into_memory(t, filter)
                   ELSE InMemoryTable_filter_map_into_memory(t, filter)
          IN  Return(r.table,
                     [NoCall EXCEPT !.op = "filter_map_into_memory",
                                    !.a = k, !.filter = filter,
                                    !.applied = r.applied])

\* auto table = table.filter_map_into_disk<OutRecord>(filter, map).
FilterMapIntoDisk ==
    /\ NoResult /\ Filled
    /\ \E k \in Kinds, filter \in Filters, path \in TempPaths :
          LET t       == Operand("A", k)
              created == CreateTempTable(path)
              r == IF k = "disk"
                   THEN OnDiskTable_filter_map_into_disk(t, filter, created)
                   ELSE InMemoryTable_filter_map_into_disk(t, filter,
                                                           created)
          IN  Return(r.table,
                     [NoCall EXCEPT !.op = "filter_map_into_disk",
                                    !.a = k, !.filter = filter,
                                    !.applied = r.applied])

\* auto joined_table = bnl_join_into_disk<OutRecord>(a, b).
BnlJoinIntoDisk ==
    /\ NoResult /\ Filled
    /\ \E ka \in Kinds, kb \in Kinds, match \in Matches, path \in TempPaths :
          LET r == bnl_join_into_disk(Operand("A", ka), Operand("B", kb),
                                      match, CreateTempTable(path))
          IN  Return(r.table,
                     [NoCall EXCEPT !.op = "bnl_join_into_disk", !.a = ka,
                                    !.b = kb, !.filter = match,
                                    !.evals = r.evals,
                                    !.scans_a = r.scans_a,
                                    !.scans_b = r.scans_b])

\* auto joined_table = bnl_join_into_memory<OutRecord>(a, b).
BnlJoinIntoMemory ==
    /\ NoResult /\ Filled
    /\ \E ka \in Kinds, kb \in Kinds, match \in Matches :
          LET r == bnl_join_into_memory(Operand("A", ka), Operand("B", kb),
                                        match)
          IN  Return(r.table,
                     [NoCall EXCEPT !.op = "bnl_join_into_memory", !.a = ka,
                                    !.b = kb, !.filter = match,
                                    !.evals = r.evals,
                                    !.scans_a = r.scans_a,
                                    !.scans_b = r.scans_b])

\* bool equal = (x == y), where x is a table A and y a table A or B.
Compare ==
    /\ NoResult /\ Filled
    /\ \E kx \in Kinds, ky \in Kinds, y \in {"A", "B"} :
          call' = [NoCall EXCEPT !.op = "equals", !.a = kx, !.b = ky,
                                 !.filter = y,
                                 !.equal = Equals(Operand("A", kx),
                                                  Operand(y, ky))]
    /\ UNCHANGED <<tableWorld, fs, test_a, test_b, a_disk, b_disk, out>>

\* The result goes out of scope: ~OnDiskTable of a temporary table empties
\* its file, ~InMemoryTable frees the vector.
DropResult ==
    /\ ~NoResult
    /\ fs' = IF out.kind = "disk"
             THEN [fs EXCEPT ![out.path].data =
                      DestructorData(out.data, out.buf, out.n, TRUE)]
             ELSE fs
    /\ out' = NoTable
    /\ call' = NoCall
    /\ UNCHANGED <<tableWorld, test_a, test_b, a_disk, b_disk>>

\* A program that filters a table A.
FilterInit == AlgInit(MaxRows, 0)

FilterNext ==
    \/ FillA
    \/ FlushA
    \/ FilterIntoMemory
    \/ FilterIntoDisk
    \/ FilterMapIntoMemory
    \/ FilterMapIntoDisk
    \/ DropResult

FilterSpec == FilterInit /\ [][FilterNext]_vars

\* A program that joins a table A with a table B.
JoinInit == AlgInit(MaxJoinRowsA, MaxJoinRowsB)

JoinNext ==
    \/ FillA
    \/ FlushA
    \/ FillB
    \/ FlushB
    \/ BnlJoinIntoDisk
    \/ BnlJoinIntoMemory
    \/ DropResult

JoinSpec == JoinInit /\ [][JoinNext]_vars

\* A program that compares tables.
CompareInit == AlgInit(MaxRows, MaxRows)

CompareNext ==
    \/ FillA
    \/ FlushA
    \/ FillB
    \/ FlushB
    \/ Compare

CompareSpec == CompareInit /\ [][CompareNext]_vars

(* --------------------------- claims C11 .. C20 ------------------------- *)

\* The records of a sequence that satisfy filter, in the order of the
\* sequence.
Satisfying(records, filter) ==
    SelectSeq(records, LAMBDA r : EvalFilter(filter, r))

\* The table A a filter call was made on.
Filtered == Operand("A", call.a)

\* C11: for an on-disk and for an in-memory table T and a predicate p, the
\* table filter_into_memory(p) returns and the table filter_into_disk(p)
\* returns hold exactly the records of T that satisfy p, in the order of T,
\* and the two compare equal with operator==, in either order of operands.
C11_Filter ==
    LET wanted    == Satisfying(TableSeq(Filtered), call.filter)
        in_memory == IF call.a = "disk"
                     THEN OnDiskTable_filter_into_memory(Filtered,
                                                         call.filter)
                     ELSE InMemoryTable_filter_into_memory(Filtered,
                                                           call.filter)
        in_disk(path) ==
            IF call.a = "disk"
            THEN OnDiskTable_filter_into_disk(Filtered, call.filter,
                                              CreateTempTable(path))
            ELSE InMemoryTable_filter_into_disk(Filtered, call.filter,
                                                CreateTempTable(path))
    IN  /\ call.op = "filter_into_memory" =>
            /\ TableSeq(out) = wanted
            /\ \A path \in TempPaths :
                  Equals(out, in_disk(path)) /\ Equals(in_disk(path), out)
        /\ call.op = "filter_into_disk" =>
            /\ TableSeq(out) = wanted
            /\ Equals(in_memory, out) /\ Equals(out, in_memory)

\* C11 witness: filter_into_disk on an on-disk table with records in its
\* file and in its buffer; some records fail the predicate, and those that
\* satisfy it fill a block of the result.
C11_Witness ==
    /\ call.op = "filter_into_disk" /\ call.a = "disk"
    /\ FileSize(a_disk.data) > 0 /\ a_disk.n > 0
    /\ TableSize(out) = ENTRIES_PER_BLOCK
    /\ TableSize(out) < TableSize(a_disk)
    /\ FileSize(out.data) = BLOCK_SIZE
    /\ TableSeq(out) = Satisfying(test_a, call.filter)

\* C12: filter_map_into_memory(p, f) and filter_map_into_disk(p, f) hold
\* f(r) for exactly the records r of the table that satisfy p, in the order
\* of the table; f is called with the records that satisfy p and no others,
\* and the result has as many records as satisfy p.
C12_FilterMap ==
    LET wanted == Satisfying(TableSeq(Filtered), call.filter)
    IN  call.op \in {"filter_map_into_memory", "filter_map_into_disk"} =>
            /\ TableSeq(out) = [i \in 1..Len(wanted) |-> MapRecord(wanted[i])]
            /\ call.applied = wanted
            /\ TableSize(out) = Len(wanted)

\* C12 witness: filter_map_into_memory on an in-memory table of which some
\* but not all records satisfy the predicate.
C12_Witness ==
    /\ call.op = "filter_map_into_memory" /\ call.a = "memory"
    /\ TableSize(out) > 0
    /\ TableSize(out) < Len(test_a)
    /\ out.rows[1] = MapRecord(Satisfying(test_a, call.filter)[1])
    /\ out.rows[1] \notin RecordValues

\* The last call was a join.
IsJoin == call.op \in {"bnl_join_into_disk", "bnl_join_into_memory"}

\* The records of the operands of a join, by index.
RowsA == TableSeq(Operand("A", call.a))

RowsB == TableSeq(Operand("B", call.b))

\* The index pairs <<i, j>> with i in 1..m and j in 1..n, ordered by i, then
\* by j.
PairSeq(m, n) ==
    [k \in 1..(m * n) |-> <<((k - 1) \div n) + 1, ((k - 1) % n) + 1>>]

\* The combined records of the matching pairs, ordered by the index in A,
\* then by the index in B.
ByAThenB(match) ==
    LET hits == SelectSeq(PairSeq(Len(RowsA), Len(RowsB)),
                          LAMBDA p : IsMatch(match, RowsA[p[1]],
                                             RowsB[p[2]]))
    IN  [k \in 1..Len(hits) |-> Combine(RowsA[hits[k][1]], RowsB[hits[k][2]])]

\* The combined records of the matching pairs, ordered by the index in B,
\* then by the index in A.
ByBThenA(match) ==
    LET hits == SelectSeq(PairSeq(Len(RowsB), Len(RowsA)),
                          LAMBDA p : IsMatch(match, RowsA[p[2]],
                                             RowsB[p[1]]))
    IN  [k \in 1..Len(hits) |-> Combine(RowsA[hits[k][2]], RowsB[hits[k][1]])]

\* The number of times v occurs in a sequence.
Count(seq, v) == Cardinality({i \in DOMAIN seq : seq[i] = v})

\* Two sequences hold the same records the same number of times.
SameBag(s1, s2) ==
    /\ Len(s1) = Len(s2)
    /\ \A i \in DOMAIN s1 : Count(s1, s1[i]) = Count(s2, s1[i])

\* C13: the result of a join holds combine(a, b) once for every pair of an
\* index i of A and an index j of B with is_match(A[i], B[j]), and nothing
\* else; its size is the number of such pairs, 0 when A or B is empty.
C13_JoinPairs ==
    IsJoin =>
        LET pairs == {p \in (1..Len(RowsA)) \X (1..Len(RowsB)) :
                         IsMatch(call.filter, RowsA[p[1]], RowsB[p[2]])}
            made(v) == {p \in pairs : Combine(RowsA[p[1]], RowsB[p[2]]) = v}
            result == TableSeq(out)
        IN  /\ TableSize(out) = Cardinality(pairs)
            /\ \A i \in DOMAIN result : made(result[i]) # {}
            /\ \A p \in pairs :
                  LET v == Combine(RowsA[p[1]], RowsB[p[2]])
                  IN  Count(result, v) = Cardinality(made(v))
            /\ (RowsA = << >> \/ RowsB = << >>) => TableSize(out) = 0

\* C13 witness: a join of two on-disk tables into an on-disk table; the
\* same record of A matches two records of B, some pair does not match, and
\* the result fills a block of its file.
C13_Witness ==
    /\ call.op = "bnl_join_into_disk"
    /\ call.a = "disk" /\ call.b = "disk"
    /\ TableSize(out) >= ENTRIES_PER_BLOCK
    /\ FileSize(out.data) >= BLOCK_SIZE
    /\ TableSize(out) < Len(RowsA) * Len(RowsB)
    /\ \E j1, j2 \in DOMAIN RowsB :
          /\ j1 # j2
          /\ IsMatch(call.filter, RowsA[1], RowsB[j1])
          /\ IsMatch(call.filter, RowsA[1], RowsB[j2])

\* The result, by index, of the join with the operands stored as ka and kb,
\* into a table in memory or on the temporary file path, in this state.
JoinResult(ka, kb, into, path, match) ==
    TableSeq(IF into = "disk"
             THEN bnl_join_into_disk(Operand("A", ka), Operand("B", kb),
                                     match, CreateTempTable(path)).table
             ELSE bnl_join_into_memory(Operand("A", ka), Operand("B", kb),
                                       match).table)

\* C14: for the same records in A and B, the results of the eight joins
\* (A and B each in memory or on disk, result in memory or on disk) hold
\* the same records the same number of times.
C14_JoinStorageInvariant ==
    IsJoin =>
        \A ka \in Kinds, kb \in Kinds, into \in Kinds,
           path \in TempPaths \ {out.path} :
              SameBag(TableSeq(out),
                      JoinResult(ka, kb, into, path, call.filter))

\* C14 witness: a join of an in-memory A with an on-disk B whose result is
\* not the sequence the join of the two on-disk tables gives, though the
\* records are the same.
C14_Witness ==
    /\ IsJoin
    /\ call.a = "memory" /\ call.b = "disk"
    /\ b_disk.n > 0
    /\ \E path \in TempPaths \ {out.path} :
          LET other == JoinResult("disk", "disk", "disk", path, call.filter)
          IN  /\ TableSeq(out) # other
              /\ SameBag(TableSeq(out), other)

\* C15: the result of a join is ordered by the index of the outer row, then
\* by the index of the inner row; the outer table is B when A is in memory
\* and B is on disk, and A otherwise.
C15_JoinOrder ==
    IsJoin =>
        TableSeq(out) = IF call.a = "memory" /\ call.b = "disk"
                        THEN ByBThenA(call.filter)
                        ELSE ByAThenB(call.filter)

\* C15 witness: a join of an in-memory A with an on-disk B into an on-disk
\* table, in which the order by B differs from the order by A.
C15_Witness ==
    /\ call.op = "bnl_join_into_disk"
    /\ call.a = "memory" /\ call.b = "disk"
    /\ TableSeq(out) = ByBThenA(call.filter)
    /\ ByBThenA(call.filter) # ByAThenB(call.filter)

\* The table the tests compare a join result with: InMemoryTable(expected).
Expected(records) == MemTable(records)

\* C16 as stated: whatever the storage of A, of B and of the result, the
\* result of a join is equal under operator== to the in-memory table of the
\* combined records of the matching pairs ordered by the index in A, then by
\* the index in B.
C16_Original ==
    IsJoin =>
        /\ Equals(out, Expected(ByAThenB(call.filter)))
        /\ Equals(Expected(ByAThenB(call.filter)), out)

\* C16, amended: the result of a join is equal under operator==, in either
\* order of the operands of ==, to the in-memory table of the combined
\* records of the matching pairs ordered by the index in A, then by the
\* index in B, for every storage of A, B and the result but an in-memory A
\* with an on-disk B; for these it is equal to the table of the same records
\* ordered by the index in B, then by the index in A.
C16_SameSequence ==
    IsJoin =>
        LET expected == Expected(IF call.a = "memory" /\ call.b = "disk"
                                 THEN ByBThenA(call.filter)
                                 ELSE ByAThenB(call.filter))
        IN  /\ Equals(out, expected)
            /\ Equals(expected, out)
            /\ TableSize(out) = TableSize(expected)

\* C16 witness: a join of an on-disk A with an in-memory B into an on-disk
\* table that equals the table ordered by A, where the order by B is another
\* sequence.
C16_Witness ==
    /\ call.op = "bnl_join_into_disk"
    /\ call.a = "disk" /\ call.b = "memory"
    /\ TableSize(out) >= ENTRIES_PER_BLOCK
    /\ Equals(out, Expected(ByAThenB(call.filter)))
    /\ ~Equals(out, Expected(ByBThenA(call.filter)))

\* C17: in a join with one operand on disk, one scan of the on-disk operand
\* is started and the in-memory operand is scanned once for every row of the
\* on-disk operand; with both operands on disk, one scan of A is started and
\* B is scanned once for every row of A; is_match is called |A| * |B| times.
C17_ScanPolicy ==
    IsJoin =>
        /\ (call.a = "disk" /\ call.b = "memory") =>
              call.scans_a = 1 /\ call.scans_b = Len(RowsA)
        /\ (call.a = "memory" /\ call.b = "disk") =>
              call.scans_b = 1 /\ call.scans_a = Len(RowsB)
        /\ (call.a = "disk" /\ call.b = "disk") =>
              call.scans_a = 1 /\ call.scans_b = Len(RowsA)
        /\ call.evals = Len(RowsA) * Len(RowsB)

\* C17 witness: a join of an in-memory A of one record with an on-disk B of
\* two records: A is scanned twice, B once, is_match is called twice.
C17_Witness ==
    /\ IsJoin
    /\ call.a = "memory" /\ call.b = "disk"
    /\ Len(RowsA) = 1 /\ Len(RowsB) = 2
    /\ call.scans_a = 2 /\ call.scans_b = 1
    /\ call.evals = 2

\* The operands x and y of the last comparison x == y.
ComparedX == Operand("A", call.a)

ComparedY == Operand(call.filter, call.b)

\* C18: for tables X and Y in memory or on disk, X == Y is true exactly if
\* size(X) = size(Y) and X and Y hold equal records at every index; Y == X
\* gives what X == Y gives, and X == X and Y == Y are true.
C18_Equality ==
    call.op = "equals" =>
        /\ call.equal <=>
              /\ TableSize(ComparedX) = TableSize(ComparedY)
              /\ \A i \in 1..TableSize(ComparedX) :
                    TableRead(ComparedX, i - 1) = TableRead(ComparedY, i - 1)
        /\ Equals(ComparedY, ComparedX) = call.equal
        /\ Equals(ComparedX, ComparedX)
        /\ Equals(ComparedY, ComparedY)

\* C18 witness: an in-memory table and an on-disk table (records in its
\* file and in its buffer) of the same size that differ in their last
\* record only, found unequal.
C18_Witness ==
    /\ call.op = "equals"
    /\ call.a = "memory" /\ call.b = "disk" /\ call.filter = "B"
    /\ ~call.equal
    /\ Len(test_a) = Len(test_b)
    /\ Len(test_a) > ENTRIES_PER_BLOCK
    /\ FileSize(b_disk.data) > 0 /\ b_disk.n > 0
    /\ \A i \in 1..(Len(test_a) - 1) : test_a[i] = test_b[i]
    /\ test_a[Len(test_a)] # test_b[Len(test_b)]

(* ------------------------- read(index), any index ---------------------- *)

\* The bytes a read of memory no record was stored in can give: those of
\* any record, or bytes that are no record a caller inserted.
AnyBytes == RecordValues \cup {Uninit}

Returned(index, record) ==
    [outcome |-> "record", index |-> index, record |-> record]

\* The read ends the process (a fault on memory outside the array).
Faulted(index) == [outcome |-> "fault", index |-> index, record |-> Uninit]

\* OnDiskTable::read(index), for any index: what the call can give.  There
\* is no comparison of index with size().  An index below num_entries is
\* read from the file.  Any other index reads the element index -
\* num_entries of rows_write_buffer: a buffered record, a record an earlier
\* flush left there, an element never written (indeterminate) or, from
\* ENTRIES_PER_BLOCK on, memory outside the array (undefined behaviour: any
\* bytes, or a fault).
OnDiskTable_read_any(data, buf, index) ==
    LET num_entries == FileSize(data) \div SizeofRecord
        slot        == index - num_entries
    IN  IF index < num_entries
        THEN {Returned(index, ReadAt(data, index * SizeofRecord,
                                     SizeofRecord))}
        ELSE IF slot >= ENTRIES_PER_BLOCK
        THEN {Returned(index, r) : r \in AnyBytes} \cup {Faulted(index)}
        ELSE IF buf[slot + 1] = Uninit
        THEN {Returned(index, r) : r \in AnyBytes}
        ELSE {Returned(index, buf[slot + 1])}

\* InMemoryTable::read(index), for any index: rows[index], and operator[]
\* of std::vector makes no check; an index from rows.size() on is undefined
\* behaviour (any bytes, or a fault).
InMemoryTable_read_any(rs, index) ==
    IF index < Len(rs)
    THEN {Returned(index, rs[index + 1])}
    ELSE {Returned(index, r) : r \in AnyBytes} \cup {Faulted(index)}

\* The indexes a caller reads at: those of the table and some beyond.
ReadIndexes == 0..(Size + ENTRIES_PER_BLOCK)

\* What a read leaves in the program: a fault ends the process, a return
\* changes nothing.
AfterRead(g) ==
    /\ got' = g
    /\ last_op' = "read"
    /\ IF g.outcome = "fault"
       THEN /\ Abort
            /\ UNCHANGED <<dir_exists, fs, unlinked>>
       ELSE UNCHANGED <<kind, status, tableVars, rows, scanVars, inserted,
                        fresh, explicit_flush, dtor>>
    /\ UNCHANGED <<algVars, sys, copied, moved, snapshot, file_name>>

\* Record record = table.read(index) on an on-disk table.
DiskRead ==
    /\ OnDisk
    /\ status = "open"
    /\ NoScan
    /\ \E index \in ReadIndexes :
          \E g \in OnDiskTable_read_any(RowsData, rows_write_buffer, index) :
             AfterRead(g)

\* Record &record = table.read(index) on an in-memory table.
MemRead ==
    /\ kind = "memory"
    /\ \E index \in ReadIndexes :
          \E g \in InMemoryTable_read_any(rows, index) : AfterRead(g)

\* A program that reads its table at any index.
ReadNext ==
    \/ Open
    \/ CreateTemp
    \/ Insert
    \/ FlushWriteBuffer
    \/ Clear
    \/ MemInsert
    \/ MemClear
    \/ DiskRead
    \/ MemRead

ReadSpec == Init /\ [][ReadNext]_vars

\* A read was made at an index that is no index of the table.
ReadBeyond == got.outcome # "none" /\ got.index >= Size

\* C19: read(index) on an on-disk table with index >= size() fails with an
\* out-of-bounds error: no record is returned (and the file, the buffer and
\* the buffer size are as before).
C19_DiskReadFails ==
    (OnDisk /\ ReadBeyond) => got.outcome = "error"

\* C20: read(index) on an in-memory table with index >= size() reports an
\* out-of-bounds error and returns no record.
C20_MemReadFails ==
    (kind = "memory" /\ ReadBeyond) => got.outcome = "error"

(* ------------------------ remove, open, create_temp -------------------- *)

\* C21: once remove() has run on a persistent table, neither the rows file
\* nor the table directory is on disk, whatever the file and the buffer
\* held; the destructor that runs afterwards (and flushes the buffer into
\* the unlinked file) brings neither of them back.
C21_RemoveLeavesNothing ==
    /\ (kind = "persistent" /\ unlinked) =>
          /\ ~fs[fd_to_path].exists
          /\ ~dir_exists
    /\ (kind = "persistent" /\ status = "none" /\ dtor.valid
            /\ dtor.removed) =>
          /\ ~fs[dtor.path].exists
          /\ ~dir_exists

\* C21 witness: a table with a full block in its file and records in its
\* buffer was removed and then destroyed.
C21_Witness ==
    /\ kind = "persistent" /\ status = "none"
    /\ dtor.valid /\ dtor.removed
    /\ dtor.buffered > 0
    /\ Len(dtor.seq) > ENTRIES_PER_BLOCK
    /\ ~fs[RowsPath].exists
    /\ ~dir_exists

\* C22: open(path) returns a table whether or not the directory and the rows
\* file were there: afterwards both exist, the table is not temporary, is
\* bound to path and to path/rows, and has an allocated write buffer that
\* holds no record; a rows file that was there keeps its bytes.
C22_Open ==
    /\ []( (kind = "persistent" /\ last_op = "open") =>
              /\ status = "open"
              /\ dir_exists
              /\ fs[RowsPath].exists
              /\ fd_open
              /\ fd_to_path = RowsPath
              /\ root_path = "table"
              /\ ~temp
              /\ buffer_allocated
              /\ rows_write_buffer_size = 0 )
    /\ [][ (kind = "persistent" /\ status = "none" /\ status' = "open"
              /\ fs[RowsPath].exists) =>
              fs'[RowsPath] = fs[RowsPath] ]_vars

\* C22 witness: open on a directory and a rows file left by an earlier
\* table, with more than a block of records in the file.
C22_Witness ==
    /\ kind = "persistent" /\ status = "open" /\ last_op = "open"
    /\ dtor.valid /\ ~dtor.removed
    /\ FileSize(fs[RowsPath].data) > BLOCK_SIZE
    /\ buffer_allocated
    /\ rows_write_buffer_size = 0

(* ---------------------- two temporary tables at a time ----------------- *)

\* A table sees the bytes of the file its descriptor is open on.
Sync(t, files) ==
    IF t.kind = "disk" THEN [t EXCEPT !.data = files[t.path].data] ELSE t

\* A step of the program that holds the temporary tables ta and tb and
\* leaves the files files.
TempStep(files, ta, tb) ==
    /\ fs' = files
    /\ a_disk' = Sync(ta, files)
    /\ b_disk' = Sync(tb, files)
    /\ UNCHANGED <<tableWorld, test_a, test_b, out, call>>

\* OnDiskTable::create_temp() with the name File::create_temp draws.  The
\* name comes from rand(), which is never seeded by the library and whose
\* state any other caller of rand() or srand() moves, so that a draw can
\* give any name, a name drawn before (in this run of the program or in an
\* earlier one) included.
TempCreated(files, path) == DiskTable(path, OpenCreat(files, path)[path].data)

\* auto a = OnDiskTable<Record>::create_temp().
CreateTempA ==
    /\ a_disk = NoTable
    /\ \E path \in TempPaths :
          TempStep(OpenCreat(fs, path), TempCreated(fs, path), b_disk)

\* auto b = OnDiskTable<Record>::create_temp().
CreateTempB ==
    /\ b_disk = NoTable
    /\ \E path \in TempPaths :
          TempStep(OpenCreat(fs, path), a_disk, TempCreated(fs, path))

\* a.insert(record).
InsertTempA ==
    /\ a_disk.kind = "disk"
    /\ TableSize(a_disk) < MaxRows
    /\ \E record \in RecordValues :
          LET t == TableInsert(a_disk, record)
          IN  TempStep([fs EXCEPT ![t.path].data = t.data], t, b_disk)

\* b.insert(record).
InsertTempB ==
    /\ b_disk.kind = "disk"
    /\ TableSize(b_disk) < MaxRows
    /\ \E record \in RecordValues :
          LET t == TableInsert(b_disk, record)
          IN  TempStep([fs EXCEPT ![t.path].data = t.data], a_disk, t)

\* The bytes ~OnDiskTable leaves in the file of the temporary table t.
TempDestroyed(files, t) ==
    [files EXCEPT ![t.path].data = DestructorData(t.data, t.buf, t.n, TRUE)]

\* a goes out of scope.
DestroyTempA ==
    /\ a_disk.kind = "disk"
    /\ TempStep(TempDestroyed(fs, a_disk), NoTable, b_disk)

\* b goes out of scope.
DestroyTempB ==
    /\ b_disk.kind = "disk"
    /\ TempStep(TempDestroyed(fs, b_disk), a_disk, NoTable)

\* A program that creates, fills and drops temporary tables, two at a time.
TempInit ==
    /\ Init
    /\ kind = "temporary"

TempNext ==
    \/ CreateTempA
    \/ CreateTempB
    \/ InsertTempA
    \/ InsertTempB
    \/ DestroyTempA
    \/ DestroyTempB

TempSpec == TempInit /\ [][TempNext]_vars

\* C23: the names create_temp allocates do not collide: two temporary tables
\* that are alive at the same time have different backing files, and the
\* backing file of a temporary table is a file that did not exist before
\* the table was created.
C23_NonColliding ==
    /\ []( (a_disk.kind = "disk" /\ b_disk.kind = "disk") =>
              a_disk.path # b_disk.path )
    /\ [][ /\ (a_disk = NoTable /\ a_disk' # NoTable) =>
                 ~fs[a_disk'.path].exists
           /\ (b_disk = NoTable /\ b_disk' # NoTable) =>
                 ~fs[b_disk'.path].exists ]_vars

(* ------------------------ system calls that fail ----------------------- *)

\* open(path) or create_temp() when a system call of it fails: mkdir with
\* an errno other than EEXIST (ensure_dir), or open (open_rw, create_temp).
OpenDies ==
    /\ OnDisk
    /\ status = "none"
    /\ \E syscall \in IF kind = "persistent" THEN {"mkdir", "open"}
                      ELSE {"open"} :
          /\ dir_exists' =
                (dir_exists \/ (kind = "persistent" /\ syscall = "open"))
          /\ Outcome(Failed(syscall))
    /\ Abort
    /\ last_op' = "die"
    /\ UNCHANGED <<fs, unlinked>>

\* size, read, clear, insert or flush_write_buffer when a system call of it
\* fails.
UseDies ==
    /\ status = "open"
    /\ \E syscall \in UseSyscalls : Dies(syscall)

\* The destructor when lseek or write of its flush_write_buffer fails, or
\* ftruncate of its rows_file.clear().
DestructorDies ==
    /\ OnDisk
    /\ status = "open"
    /\ rows_file # -1
    /\ \E syscall \in IF temp THEN {"ftruncate"}
                      ELSE IF rows_write_buffer_size > 0
                      THEN {"lseek", "write"} ELSE {} :
          Outcome(Failed(syscall))
    /\ Abort
    /\ last_op' = "destroy"
    /\ UNCHANGED <<dir_exists, fs, unlinked>>

\* The destructor when ::close(fd) of its rows_file.close() fails: the
\* descriptor is released all the same, and the destructor returns.
CloseFails ==
    /\ rows_file # -1
    /\ Destructor(Failed("close"))

\* A program the system calls of which can fail.
FailNext ==
    \/ Open
    \/ CreateTemp
    \/ Insert
    \/ FlushWriteBuffer
    \/ Clear
    \/ Remove
    \/ Destroy
    \/ OpenDies
    \/ UseDies
    \/ DestructorDies
    \/ CloseFails

FailSpec == Init /\ [][FailNext]_vars

\* C24: no failure of a system call is ignored: whenever a call of the file
\* or directory primitives has failed, the failure has been reported once
\* and the process has been terminated, and a terminated process takes no
\* further step.
C24_EveryFailureFatal ==
    /\ []( sys.failed # "none" =>
              /\ sys.reported = 1
              /\ status = "aborted" )
    /\ [][ status # "aborted" ]_vars

(* ------------------------ records of every size ------------------------ *)

\* sizeof(Record) goes from 1 to this many bytes where the record type of
\* OnDiskTable<Record> varies.
MaxSizeof == 7

\* The bytes of the record value v of a record type of size bytes.
RecOf(v, size) == [i \in 1..size |-> 10 * v + i]

\* OnDiskTable<Record>::ENTRIES_PER_BLOCK for sizeof(Record) = size:
\* 4096 / sizeof(Record) in size_t (BlockBytes stands for 4096).
EntriesFor(size) == BlockBytes \div size

\* OnDiskTable<Record>::BLOCK_SIZE for sizeof(Record) = size.
BlockSizeFor(size) == EntriesFor(size) * size

\* sizeof(Record) of the records the program holds.
SizeofTestRecord == Len(test_a[1])

\* OnDiskTable<Record>::open on an absent table, for sizeof(Record) = size:
\* rows_write_buffer = new Record[ENTRIES_PER_BLOCK].
SizedTable(size) ==
    [kind |-> "disk", rows |-> << >>, path |-> PathA, data |-> << >>,
     buf |-> [k \in 1..EntriesFor(size) |-> [i \in 1..size |-> 0]],
     n |-> 0, pos |-> 0]

\* table.insert(record) for a record type of any size, where the buffer has
\* a slot for the record.
SizedInsert(t, record) ==
    LET size == Len(record)
        buf  == [t.buf EXCEPT ![t.n + 1] = record]
    IN  IF t.n + 1 = EntriesFor(size)
        THEN [t EXCEPT !.data = FileAppend(t.data,
                                           BufferBytes(buf, t.n + 1),
                                           (t.n + 1) * size),
                       !.buf = buf, !.n = 0,
                       !.pos = Len(t.data) + (t.n + 1) * size]
        ELSE [t EXCEPT !.buf = buf, !.n = t.n + 1]

\* table.insert(record) where the buffer has no slot for the record
\* (ENTRIES_PER_BLOCK = 0): memcpy writes past the array of zero records.
\* The write lands in the heap and the program runs on with a buffer size
\* that never equals ENTRIES_PER_BLOCK again, or the program crashes.
SizedInsertBeyond(t) ==
    {[t EXCEPT !.n = t.n + 1], [t EXCEPT !.kind = "crashed"]}

\* The program holds a vector of one to MaxRows records of a record type.
SizeInit ==
    /\ TableInit
    /\ kind = "persistent"
    /\ sys = NoFailure
    /\ copied = NoCopy
    /\ got = NoRead
    /\ \E size \in 1..MaxSizeof, k \in 1..MaxRows :
          test_a \in [1..k -> {RecOf(v, size) : v \in 1..NumValues}]
    /\ test_b = << >>
    /\ a_disk = NoTable
    /\ b_disk = NoTable
    /\ out = NoTable
    /\ call = NoCall

\* auto table = dbpp::OnDiskTable<Record>::open(TABLE_PATH).
OpenSized ==
    /\ a_disk = NoTable
    /\ a_disk' = SizedTable(SizeofTestRecord)
    /\ UNCHANGED <<tableWorld, fs, test_a, test_b, b_disk, out, call>>

\* table.insert(record) for the next record of the vector.
FillSized ==
    /\ a_disk.kind = "disk"
    /\ Len(a_disk.data) \div SizeofTestRecord + a_disk.n < Len(test_a)
    /\ LET record == test_a[Len(a_disk.data) \div SizeofTestRecord
                            + a_disk.n + 1]
       IN  IF a_disk.n < EntriesFor(SizeofTestRecord)
           THEN a_disk' = SizedInsert(a_disk, record)
           ELSE a_disk' \in SizedInsertBeyond(a_disk)
    /\ UNCHANGED <<tableWorld, fs, test_a, test_b, b_disk, out, call>>

SizeNext ==
    \/ OpenSized
    \/ FillSized

SizeSpec == SizeInit /\ [][SizeNext]_vars

\* C25: for every record size, ENTRIES_PER_BLOCK (the number of slots of the
\* write buffer of a table) is floor(4096 / sizeof(Record)) and at least 1,
\* and BLOCK_SIZE lies between sizeof(Record) and 4096.
C25_BlockHoldsARecord ==
    a_disk.kind = "disk" =>
        LET entries == Len(a_disk.buf)
            size    == SizeofTestRecord
        IN  /\ entries * size <= BlockBytes
            /\ (entries + 1) * size > BlockBytes
            /\ entries >= 1
            /\ BlockSizeFor(size) >= size
            /\ BlockSizeFor(size) <= BlockBytes

(* ------------------------------ the iterator --------------------------- *)

\* C26 as stated: begin() is in phase ROWS_FILE, except that it is in phase
\* END when the table holds no record in its file and none in its buffer;
\* on such a table begin() == end().
C26_Original ==
    (OnDisk /\ status = "open" /\ last_op = "begin") =>
        /\ it.phase = IF Size = 0 THEN "END" ELSE "ROWS_FILE"
        /\ Size = 0 => \A e \in EndIterators : IteratorEquals(it, e)

\* C26 amended: begin() is in phase ROWS_FILE when the rows file holds a
\* record, in phase ROWS_BUFFER when the file is empty and the buffer is
\* not, and in phase END when both are empty; begin() == end() on exactly
\* the tables of size 0.
C26_BeginPhase ==
    (OnDisk /\ status = "open" /\ last_op = "begin") =>
        /\ it.phase = IF FileSize(RowsData) > 0 THEN "ROWS_FILE"
                      ELSE IF rows_write_buffer_size > 0 THEN "ROWS_BUFFER"
                      ELSE "END"
        /\ \A e \in EndIterators : IteratorEquals(it, e) <=> Size = 0

\* C26 witness: begin() on a table with an empty file and a record in its
\* buffer.
C26_Witness ==
    /\ OnDisk /\ status = "open" /\ last_op = "begin"
    /\ FileSize(RowsData) = 0
    /\ rows_write_buffer_size > 0
    /\ it.phase = "ROWS_BUFFER"

\* The iterator, in phase ROWS_FILE, is at the last record of its block.
AtBlockEnd == (it.block_pos + 1) * SizeofRecord = it.block_size

\* C27: when the read of the next block finds no byte (in the constructor on
\* an empty file, or in ++ at the last record of the last block), the
\* iterator holds no block of its own any more and is in phase END if the
\* write buffer is empty, and otherwise in phase ROWS_BUFFER at offset 0 of
\* the write buffer with rows_write_buffer_size records ahead; in phase
\* ROWS_BUFFER the iterator stands on a buffered record, and ++ at the last
\* of them gives phase END.
C27_EndOfFile ==
    /\ [][ ( \/ /\ last_op' = "begin"
                /\ FileSize(RowsData) = 0
             \/ /\ last_op' = "next"
                /\ it.phase = "ROWS_FILE"
                /\ AtBlockEnd
                /\ it.rows_file_pos + it.block_size >= FileSize(RowsData) )
           =>
           /\ it'.block_kind # "own"
           /\ rows_write_buffer_size = 0 => it'.phase = "END"
           /\ rows_write_buffer_size > 0 =>
                 /\ it'.phase = "ROWS_BUFFER"
                 /\ it'.block_kind = "alias"
                 /\ it'.block_pos = 0
                 /\ it'.block_size = rows_write_buffer_size * SizeofRecord
         ]_vars
    /\ []( it.phase = "ROWS_BUFFER" =>
              /\ it.block_pos < rows_write_buffer_size
              /\ Deref(it, rows_write_buffer)
                    = rows_write_buffer[it.block_pos + 1] )
    /\ [][ (last_op' = "next" /\ it.phase = "ROWS_BUFFER") =>
              /\ it'.block_pos = it.block_pos + 1
              /\ it'.phase = IF it'.block_pos = rows_write_buffer_size
                             THEN "END" ELSE "ROWS_BUFFER" ]_vars

\* C27 witness: a scan that went through more than a block of the file and
\* then through the buffered records has ended.
C27_Witness ==
    /\ OnDisk /\ status = "open" /\ last_op = "next"
    /\ it.phase = "END"
    /\ FileSize(RowsData) > BLOCK_SIZE
    /\ rows_write_buffer_size > 0
    /\ it.block_pos = rows_write_buffer_size
    /\ Len(scanned) = Size

(* ------------------- iterators that are advanced and copied ------------ *)

\* operator++ is applied to an iterator in phase END while its block_pos is
\* below this.
MaxEndPos == 4

\* No iterator is alive: the table can be written.
Idle == it = NoIterator /\ copied = NoCopy

\* table.insert(record) while no iterator is alive.
IterInsert ==
    /\ Idle
    /\ status = "open"
    /\ Size < MaxRows
    /\ Insert

\* table.flush_write_buffer() while no iterator is alive.
IterFlush ==
    /\ Idle
    /\ FlushWriteBuffer

\* auto it = table.begin().
IterBegin ==
    /\ it = NoIterator
    /\ Begin

\* An operation on the iterators: the table and its file stay as they are.
IterOp(op) ==
    /\ OnDisk
    /\ status = "open"
    /\ last_op' = op
    /\ UNCHANGED <<kind, status, tableVars, rows, inserted, fresh,
                   explicit_flush, dtor, got, algVars, sys, moved,
                   snapshot, file_name>>

\* auto it = table.end().
IterEnd ==
    /\ Idle
    /\ it' \in EndIterators
    /\ scanned' = << >>
    /\ IterOp("end")
    /\ UNCHANGED copied

\* ++it on an iterator in phase END.
AdvanceEnd ==
    /\ it.phase = "END"
    /\ it.block_pos < MaxEndPos
    /\ it' = Increment(it, RowsData, rows_write_buffer_size)
    /\ IterOp("next")
    /\ UNCHANGED <<scanned, copied>>

\* IteratorBase copy(it), in the middle of a scan.
Copy ==
    /\ it.phase \in {"ROWS_FILE", "ROWS_BUFFER"}
    /\ copied = NoCopy
    /\ copied' = [it |-> IteratorCopy(it, rows_write_buffer),
                  scanned |-> << >>]
    /\ IterOp("copy")
    /\ UNCHANGED <<it, scanned>>

\* The record *copy is taken, then ++copy.
StepCopy ==
    /\ copied.it.phase \in {"ROWS_FILE", "ROWS_BUFFER"}
    /\ copied' = [it |-> Increment(copied.it, RowsData,
                                   rows_write_buffer_size),
                  scanned |-> Append(copied.scanned,
                                     Deref(copied.it, rows_write_buffer))]
    /\ IterOp("next copy")
    /\ UNCHANGED <<it, scanned>>

\* ~IteratorBase of the copy.
DestroyCopy ==
    /\ copied # NoCopy
    /\ copied' = NoCopy
    /\ IterOp("destroy copy")
    /\ UNCHANGED <<it, scanned>>

\* ~IteratorBase of the iterator.
DestroyIt ==
    /\ it # NoIterator
    /\ it' = NoIterator
    /\ scanned' = << >>
    /\ IterOp("destroy it")
    /\ UNCHANGED copied

\* A program that holds a persistent table and iterators over it.
IterInit ==
    /\ Init
    /\ kind = "persistent"

IterNext ==
    \/ Open
    \/ IterInsert
    \/ IterFlush
    \/ IterBegin
    \/ IterEnd
    \/ Next_
    \/ AdvanceEnd
    \/ Copy
    \/ StepCopy
    \/ DestroyCopy
    \/ DestroyIt

IterSpec == IterInit /\ [][IterNext]_vars

\* The order of the phases.
PhaseRank(phase) ==
    CASE phase = "ROWS_FILE" -> 1
      [] phase = "ROWS_BUFFER" -> 2
      [] phase = "END" -> 3
      [] OTHER -> 0

\* i and j are the same iterator object, j after an operator++ on i.
Advanced(i, j) == i.phase # "NONE" /\ j.phase # "NONE" /\ i # j

\* C28: operator++ never takes an iterator to an earlier phase (the order is
\* ROWS_FILE, ROWS_BUFFER, END), and an iterator in phase END stays in phase
\* END and equal to end() however often it is advanced.
C28_PhasesForward ==
    /\ [][ Advanced(it, it') =>
              PhaseRank(it'.phase) >= PhaseRank(it.phase) ]_vars
    /\ [][ Advanced(copied.it, copied'.it) =>
              PhaseRank(copied'.it.phase) >= PhaseRank(copied.it.phase)
         ]_vars
    /\ [][ (it.phase = "END" /\ Advanced(it, it')) =>
              /\ it'.phase = "END"
              /\ it'.block_pos = it.block_pos + 1
              /\ \A e \in EndIterators : IteratorEquals(it', e) ]_vars

\* C28 witness: an iterator that went through the file and the buffer of a
\* table to phase END has been advanced three more times.
C28_Witness ==
    /\ it.phase = "END"
    /\ FileSize(RowsData) > 0
    /\ rows_write_buffer_size > 0
    /\ Len(scanned) = Size
    /\ it.block_pos = rows_write_buffer_size + 3

\* C30: a copy made in the middle of a scan stands at the position of the
\* iterator it was made from; in phase ROWS_FILE it holds an array of its own
\* with the bytes of the current block, in phase ROWS_BUFFER it points to
\* the write buffer of the table and holds no array of its own; a step or
\* the destruction of one of the two iterators leaves the other one, and
\* the records it yields, as they are, and the copy yields the records the
\* original iterator had ahead.
C30_CopyIndependent ==
    /\ [][ (copied = NoCopy /\ copied' # NoCopy) =>
              /\ IteratorEquals(copied'.it, it)
              /\ it.phase = "ROWS_FILE" =>
                    /\ copied'.it.block_kind = "own"
                    /\ SubSeq(copied'.it.block, 1, it.block_size)
                          = SubSeq(it.block, 1, it.block_size)
              /\ it.phase = "ROWS_BUFFER" =>
                    copied'.it.block_kind = "alias" ]_vars
    /\ [][ (copied' # copied) => UNCHANGED <<it, scanned>> ]_vars
    /\ [][ (copied # NoCopy /\ <<it, scanned>>' # <<it, scanned>>) =>
              UNCHANGED copied ]_vars
    /\ []( copied.it.phase = "END" =>
              copied.scanned = SubSeq(Logical,
                                      Size - Len(copied.scanned) + 1, Size) )

(* ----------------------- the loop over a table ------------------------- *)

\* for (auto it = table.begin(); it != table.end(); ++it) body(*it):
\* it != table.end() holds, the body takes *it, then ++it.
LoopStep ==
    /\ it.phase # "NONE"
    /\ \E e \in EndIterators : ~IteratorEquals(it, e)
    /\ scanned' = Append(scanned, Deref(it, rows_write_buffer))
    /\ it' = Increment(it, RowsData, rows_write_buffer_size)
    /\ IterOp("next")
    /\ UNCHANGED copied

\* it != table.end() does not hold: the loop is left and the iterator
\* destroyed.
LoopExit ==
    /\ it.phase # "NONE"
    /\ \E e \in EndIterators : IteratorEquals(it, e)
    /\ it' = NoIterator
    /\ IterOp("exit")
    /\ UNCHANGED <<scanned, copied>>

\* table.insert(record) while no loop runs.
LoopInsert ==
    /\ Idle
    /\ Insert

\* A program that fills a persistent table and loops over it; the table is
\* not written while a loop runs.
LoopNext ==
    \/ Open
    \/ LoopInsert
    \/ IterFlush
    \/ IterBegin
    \/ LoopStep
    \/ LoopExit

\* A loop that has begun goes on until it is left: the program runs the
\* loop and nothing else.
LoopSpec ==
    /\ IterInit
    /\ [][LoopNext]_vars
    /\ WF_vars(LoopStep)
    /\ WF_vars(LoopExit)

\* operator== as the claim states it.
SamePosition(i, j) ==
    /\ i.phase = j.phase
    /\ i.phase = "ROWS_FILE" =>
          /\ i.rows_file_pos = j.rows_file_pos
          /\ i.block_pos = j.block_pos
    /\ i.phase = "ROWS_BUFFER" => i.block_pos = j.block_pos

\* C29: a loop from begin() to end() over a table that is not written
\* meanwhile is left after its body has run size() times; the comparison
\* the loop makes holds exactly for iterators of the same phase that, in
\* phase ROWS_FILE, have the same file position and offset in the block
\* and, in phase ROWS_BUFFER, the same offset, so that the iterator of the
\* loop is equal to end() in phase END only and to begin() before the first
\* record only.
C29_LoopTerminates ==
    /\ (last_op = "begin") ~> (last_op = "exit")
    /\ []( last_op = "exit" =>
              /\ Len(scanned) = Size
              /\ scanned = Logical )
    /\ []( (status = "open" /\ it.phase # "NONE") =>
              LET b == IteratorBegin(RowsData, rows_write_buffer_size)
              IN  /\ \A j \in EndIterators \cup {b, it} :
                        IteratorEquals(it, j) <=> SamePosition(it, j)
                  /\ \A e \in EndIterators :
                        IteratorEquals(it, e) <=> Len(scanned) = Size
                  /\ IteratorEquals(it, b) <=> Len(scanned) = 0 )

\* C29 witness: a loop over a table with more than a block in its file and
\* a record in its buffer has been left.
C29_Witness ==
    /\ last_op = "exit"
    /\ FileSize(RowsData) > BLOCK_SIZE
    /\ rows_write_buffer_size > 0
    /\ Len(scanned) = Size

(* --------------------------- read_into_memory -------------------------- *)

\* A Record that std::vector::resize has value-initialised: every byte of a
\* record type without constructors (TestRecord, Product, Order) is zero.
ValueInitialized == [i \in 1..SizeofRecord |-> 0]

\* File::read_entire_file: ::read(fd, buf, size()) reads from the file offset
\* pos of the descriptor, up to the end of the file; the bytes read.
read_entire_file(bytes, pos) == ReadAt(bytes, pos, FileSize(bytes))

\* OnDiskTable::read_into_memory: table.rows.resize(rows_file.size() /
\* sizeof(Record)), then rows_file.read_entire_file(table.rows.data()).  The
\* in-memory table returned, and the file offset the read leaves.
OnDiskTable_read_into_memory(t) ==
    LET count == FileSize(t.data) \div SizeofRecord
        bytes == read_entire_file(t.data, t.pos)
        at(k) == [i \in 1..SizeofRecord |->
                     IF (k - 1) * SizeofRecord + i <= Len(bytes)
                     THEN bytes[(k - 1) * SizeofRecord + i]
                     ELSE ValueInitialized[i]]
    IN  [table |-> MemTable([k \in 1..count |-> at(k)]),
         pos   |-> t.pos + Len(bytes)]

\* The on-disk table A goes out of scope and is opened again: the destructor
\* appends the buffered records and closes the file, open() opens it anew.
ReopenA ==
    /\ NoResult
    /\ a_disk' = DiskTable(PathA, DestructorData(a_disk.data, a_disk.buf,
                                                 a_disk.n, FALSE))
    /\ UNCHANGED <<tableWorld, fs, test_a, test_b, b_disk, out, call>>

\* table = a_disk.read_into_memory(), for the first time or again.
ReadIntoMemory ==
    /\ a_disk.kind = "disk"
    /\ LET r == OnDiskTable_read_into_memory(a_disk)
       IN  /\ out' = r.table
           /\ a_disk' = [a_disk EXCEPT !.pos = r.pos]
    /\ call' = [NoCall EXCEPT !.op = "read_into_memory", !.a = "disk"]
    /\ UNCHANGED <<tableWorld, fs, test_a, test_b, b_disk>>

\* A program that fills an on-disk table A and reads it into memory.
IntoMemoryInit == AlgInit(MaxRows, 0)

IntoMemoryNext ==
    \/ FillA
    \/ FlushA
    \/ ReopenA
    \/ ReadIntoMemory

IntoMemorySpec == IntoMemoryInit /\ [][IntoMemoryNext]_vars

\* C31: the in-memory table read_into_memory() has returned is equal, as a
\* table, to the on-disk table it was called on, whatever that table holds in
\* its file and in its write buffer.
C31_ReadIntoMemory ==
    call.op = "read_into_memory" => Equals(out, a_disk)

(* ---------------------------- whole records ---------------------------- *)

\* C32: the rows file of an open on-disk table holds a whole number of
\* records; the block a scan holds in phase ROWS_FILE is a whole number of
\* records (at least one) and the iterator stands on one of them; and ++ at
\* the last record of the block meets the end-of-block test: the iterator
\* goes on to the block that follows in the file, or leaves phase ROWS_FILE.
C32_WholeRecords ==
    /\ []( (OnDisk /\ Alive) => FileSize(RowsData) % SizeofRecord = 0 )
    /\ []( (OnDisk /\ Alive /\ it.phase = "ROWS_FILE") =>
              /\ it.block_size > 0
              /\ it.block_size % SizeofRecord = 0
              /\ it.block_pos * SizeofRecord < it.block_size )
    /\ [][ (last_op' = "next" /\ it.phase = "ROWS_FILE" /\ AtBlockEnd) =>
              \/ it'.phase # "ROWS_FILE"
              \/ /\ it'.rows_file_pos = it.rows_file_pos + it.block_size
                 /\ it'.block_pos = 0 ]_vars

\* C32 witness: a scan stands on the last record of the last block of a file
\* made of an automatic flush and an explicit flush, and that block is not
\* the first one.
C32_Witness ==
    /\ OnDisk /\ Alive /\ explicit_flush
    /\ it.phase = "ROWS_FILE"
    /\ it.rows_file_pos > 0
    /\ AtBlockEnd
    /\ it.rows_file_pos + it.block_size = FileSize(RowsData)

(* ------------------------- tables that are moved ----------------------- *)

\* A table is moved while fewer than this many moved-from objects are alive.
MaxMoved == 2

\* The fields of the table object the program works on; rows_write_buffer is
\* the pointer, to the array of the write buffer or null.
ThisObject ==
    [root_path |-> root_path,
     rows_file |-> rows_file,
     rows_write_buffer |-> IF buffer_allocated THEN "array" ELSE "nullptr",
     rows_write_buffer_size |-> rows_write_buffer_size,
     temp |-> temp]

\* Mutant of File(File &&other): the descriptor is copied and not stolen.
FileMove_M(fd) == [self |-> fd, other |-> fd]

\* File(File &&other): fd(other.fd), other.fd = -1.
FileMove(fd) == [self |-> fd, other |-> -1]

\* OnDiskTable(OnDiskTable &&other): the object constructed and what is left
\* of other.
OnDiskTable_move(other) ==
    LET file == FileMove(other.rows_file)
    IN  [self  |-> [root_path |-> other.root_path,
                    rows_file |-> file.self,
                    rows_write_buffer |-> other.rows_write_buffer,
                    rows_write_buffer_size |-> other.rows_write_buffer_size,
                    temp |-> other.temp],
         other |-> [other EXCEPT !.rows_file = file.other,
                                 !.rows_write_buffer = "nullptr"]]

\* OnDiskTable table2(std::move(table)), as when a table is returned by
\* value: the program works on with the new object, the old one is alive
\* until its destructor runs.
Move ==
    /\ OnDisk
    /\ status = "open"
    /\ Idle
    /\ Len(moved) < MaxMoved
    /\ LET m == OnDiskTable_move(ThisObject)
       IN  /\ root_path' = m.self.root_path
           /\ rows_file' = m.self.rows_file
           /\ buffer_allocated' = (m.self.rows_write_buffer = "array")
           /\ rows_write_buffer_size' = m.self.rows_write_buffer_size
           /\ temp' = m.self.temp
           /\ moved' = Append(moved, m.other)
    /\ last_op' = "move"
    /\ UNCHANGED <<kind, status, dir_exists, fs, unlinked, orphan, fd_open,
                   fd_to_path, rows_write_buffer, rows, scanVars, inserted,
                   fresh, explicit_flush, dtor, got, algVars, sys, copied,
                   snapshot, file_name>>

\* ~OnDiskTable of a moved-from object.  With rows_file.fd == -1 it returns
\* at once.  Otherwise it goes on as for any table, on the descriptor and
\* with the null buffer pointer it holds: the flush of buffered records
\* writes from a null pointer, which write refuses (die_errno); delete[] of
\* the null pointer does nothing; a temporary table's file is truncated; the
\* descriptor is closed.
DestroyMovedFrom ==
    /\ \E k \in 1..Len(moved) :
          LET other == moved[k]
              dies  == ~other.temp /\ other.rows_write_buffer_size > 0
          IN  /\ moved' = SubSeq(moved, 1, k - 1)
                             \o SubSeq(moved, k + 1, Len(moved))
              /\ IF other.rows_file = -1
                 THEN UNCHANGED <<status, fs, fd_open, buffer_allocated>>
                 ELSE /\ status' = IF dies THEN "aborted" ELSE status
                      /\ fs' = IF other.temp /\ fd_open /\ ~unlinked
                               THEN [fs EXCEPT ![fd_to_path].data =
                                        FileClear(@)]
                               ELSE fs
                      /\ fd_open' = FALSE
                      /\ buffer_allocated' =
                            IF dies THEN FALSE ELSE buffer_allocated
    /\ last_op' = "destroy_moved"
    /\ UNCHANGED <<kind, dir_exists, unlinked, orphan, fd_to_path, root_path,
                   rows_file, rows_write_buffer, rows_write_buffer_size,
                   temp, rows, scanVars, inserted, fresh, explicit_flush,
                   dtor, got, algVars, sys, copied, snapshot, file_name>>

\* A program that makes an on-disk table, inserts records, moves the table
\* from object to object and lets the objects go out of scope in any order.
MoveInit == Init /\ kind # "memory"

MoveNext ==
    \/ Open
    \/ CreateTemp
    \/ IterInsert
    \/ Move
    \/ DestroyMovedFrom
    \/ Destroy

MoveSpec == MoveInit /\ [][MoveNext]_vars

\* The table objects that are alive: the moved-from ones and the one the
\* program works on.
Objects == moved \o (IF status = "open" THEN <<ThisObject>> ELSE << >>)

\* C33: a move gives the new object the descriptor, the write buffer and the
\* buffer size of the old one, and leaves the table's records as they were;
\* the destructor of a moved-from object changes nothing; among the objects
\* alive exactly one holds the descriptor while it is open and exactly one
\* the write buffer while it is allocated, and none does afterwards; the
\* descriptor is closed and the buffer freed by the destructor of the object
\* that holds them; and after that destructor the rows file of a persistent
\* table holds every record the table had, the buffered ones included, while
\* the file of a temporary table is empty.
C33_OwnershipTransfer ==
    /\ [][ last_op' = "move" =>
              /\ UNCHANGED <<root_path, rows_file, rows_write_buffer,
                             rows_write_buffer_size, temp, fd_open,
                             buffer_allocated, fs>>
              /\ Logical' = Logical
              /\ moved'[Len(moved')].rows_file = -1
              /\ moved'[Len(moved')].rows_write_buffer = "nullptr" ]_vars
    /\ [][ last_op' = "destroy_moved" =>
              UNCHANGED <<status, tableVars, rows>> ]_vars
    /\ []( /\ Cardinality({k \in DOMAIN Objects :
                              Objects[k].rows_file # -1})
              = IF fd_open THEN 1 ELSE 0
           /\ Cardinality({k \in DOMAIN Objects :
                              Objects[k].rows_write_buffer = "array"})
              = IF buffer_allocated THEN 1 ELSE 0 )
    /\ [][ ((fd_open /\ ~fd_open') \/ (buffer_allocated /\ ~buffer_allocated'))
              => (last_op' = "destroy" /\ ~fd_open' /\ ~buffer_allocated')
         ]_vars
    /\ []( (status = "none" /\ dtor.valid) =>
              fs[dtor.path].data = IF kind = "temporary" THEN << >>
                                   ELSE RecordsBytes(dtor.seq) )

\* C33 witness: a table with records in its file and in its buffer was
\* moved and then destroyed, and the last moved-from object has been
\* destroyed after it.
C33_Witness ==
    /\ kind = "persistent"
    /\ last_op = "destroy_moved"
    /\ status = "none" /\ dtor.valid
    /\ dtor.buffered > 0
    /\ Len(dtor.seq) > dtor.buffered
    /\ moved = << >>

(* ---------------------- a temporary table is empty --------------------- *)

\* C34: the table create_temp() returns is empty, whatever temporary tables
\* the program has created, filled or destroyed before: its size is 0 and
\* its backing file has no bytes.
C34_CreateTempEmpty ==
    [][ /\ (a_disk = NoTable /\ a_disk' # NoTable) =>
              /\ TableSize(a_disk') = 0
              /\ FileSize(fs'[a_disk'.path].data) = 0
        /\ (b_disk = NoTable /\ b_disk' # NoTable) =>
              /\ TableSize(b_disk') = 0
              /\ FileSize(fs'[b_disk'.path].data) = 0 ]_vars

(* --------------------- a filter of a temporary table ------------------- *)

\* A step of the program that filters the temporary table ta into the
\* temporary table tb with the iterator i over ta, and leaves the files
\* files.
ChainStep(files, ta, tb, i, c) ==
    /\ fs' = files
    /\ a_disk' = Sync(ta, files)
    /\ b_disk' = Sync(tb, files)
    /\ it' = i
    /\ call' = c
    /\ UNCHANGED <<kind, status, dir_exists, unlinked, orphan, fd_open,
                   fd_to_path, root_path, rows_file, rows_write_buffer,
                   buffer_allocated, rows_write_buffer_size, temp, rows,
                   scanned, histVars, got, sys, copied, moved, snapshot,
                   file_name, test_a, test_b, out>>

\* a.insert(record) while no filter runs.
ChainInsert ==
    /\ NoResult
    /\ InsertTempA

\* auto b = a.filter_into_disk(filter), up to the loop: table =
\* create_temp(), then begin() on a.
FilterBegin ==
    /\ NoResult
    /\ a_disk.kind = "disk"
    /\ b_disk = NoTable
    /\ \E path \in TempPaths, filter \in Filters :
          LET files == OpenCreat(fs, path)
          IN  ChainStep(files, a_disk, TempCreated(fs, path),
                        IteratorBegin(files[a_disk.path].data, a_disk.n),
                        [NoCall EXCEPT !.op = "filter_into_disk",
                                       !.a = "disk", !.filter = filter])

\* One turn of the loop of filter_into_disk: if (filter(record))
\* table.insert(record), then ++ on the iterator over a.  The loop is
\* followed while the output table holds fewer than 2 * MaxRows records.
FilterStep ==
    /\ call.op = "filter_into_disk"
    /\ it.phase \in {"ROWS_FILE", "ROWS_BUFFER"}
    /\ TableSize(b_disk) < 2 * MaxRows
    /\ LET record == Deref(it, a_disk.buf)
           tb     == IF EvalFilter(call.filter, record)
                     THEN TableInsert(b_disk, record)
                     ELSE b_disk
           files  == [fs EXCEPT ![tb.path].data = tb.data]
       IN  ChainStep(files, a_disk, tb,
                     Increment(it, files[a_disk.path].data, a_disk.n),
                     call)

\* The loop has ended: return table.
FilterReturn ==
    /\ call.op = "filter_into_disk"
    /\ it.phase = "END"
    /\ ChainStep(fs, a_disk, b_disk, NoIterator,
                 [call EXCEPT !.op = "filtered"])

\* b goes out of scope.
ChainDrop ==
    /\ call.op = "filtered"
    /\ ChainStep(TempDestroyed(fs, b_disk), a_disk, NoTable, it, NoCall)

\* A program that creates and fills a temporary table a (as the result of a
\* filter or join is one) and filters it into another temporary table.
ChainNext ==
    \/ CreateTempA
    \/ ChainInsert
    \/ FilterBegin
    \/ FilterStep
    \/ FilterReturn
    \/ ChainDrop

ChainSpec == TempInit /\ [][ChainNext]_vars

\* C35: from the call of filter_into_disk on a table to the end of the
\* result's life, the source table keeps the contents of its file, its
\* buffer size, its buffer contents and its sequence of records: only the
\* output table is written.
C35_SourcesReadOnly ==
    [][ (call.op # "none" \/ call'.op # "none") =>
           /\ a_disk'.data = a_disk.data
           /\ a_disk'.n = a_disk.n
           /\ a_disk'.buf = a_disk.buf
           /\ TableSeq(a_disk') = TableSeq(a_disk) ]_vars

(* ----------------------- inserts while a scan runs --------------------- *)

\* auto it = table.begin() of a loop in which the table is written.
ScanBegin ==
    /\ Idle
    /\ OnDisk
    /\ status = "open"
    /\ it' = IteratorBegin(RowsData, rows_write_buffer_size)
    /\ scanned' = << >>
    /\ snapshot' = Logical
    /\ last_op' = "begin"
    /\ UNCHANGED <<kind, status, tableVars, rows, inserted, fresh,
                   explicit_flush, dtor, got, algVars, sys, moved, copied,
                   file_name>>

\* table.insert(record) between two turns of the loop over the table: the
\* iterator is left as it is, and in phase ROWS_BUFFER its block is the
\* write buffer the insert writes to.
ScanInsert ==
    /\ OnDisk
    /\ status = "open"
    /\ it.phase \in {"ROWS_FILE", "ROWS_BUFFER"}
    /\ Size < MaxRecords
    /\ \E record \in RecordValues :
          LET res == OnDiskTable_insert(RowsData, rows_write_buffer,
                                        rows_write_buffer_size, record)
          IN  /\ WriteRows(res.data)
              /\ rows_write_buffer' = res.buf
              /\ rows_write_buffer_size' = res.n
              /\ inserted' = Append(inserted, record)
    /\ last_op' = "insert"
    /\ UNCHANGED <<kind, status, dir_exists, unlinked, fd_open, fd_to_path,
                   root_path, rows_file, buffer_allocated, temp, rows,
                   scanVars, fresh, explicit_flush, dtor>>
    /\ Elsewhere

\* A program that fills a persistent table and loops over it, with inserts
\* into the table in the body of the loop.
ScanNext ==
    \/ Open
    \/ IterInsert
    \/ IterFlush
    \/ ScanBegin
    \/ ScanInsert
    \/ LoopStep
    \/ LoopExit

ScanSpec == IterInit /\ [][ScanNext]_vars

\* C36: a loop over a table that is inserted into while the loop runs gets
\* the records of the table in their order, each once, the records the table
\* held when the loop began first; it gets inserted records only, never an
\* empty slot; and when the loop is left it has got every record the table
\* held when it began.
C36_ScanUnderInserts ==
    /\ []( (status = "open" /\ it.phase # "NONE") =>
              /\ Len(scanned) <= Size
              /\ \A k \in 1..Len(scanned) :
                    /\ scanned[k] \in RecordValues
                    /\ scanned[k] = Logical[k]
                    /\ k <= Len(snapshot) => scanned[k] = snapshot[k] )
    /\ []( last_op = "exit" => Len(scanned) >= Len(snapshot) )

(* --------------------- the name of a temporary file -------------------- *)

\* rand() returns a value from 0 to this (RAND_MAX, scaled down).
MaxRand == 130

\* temp_file_chars: the letters that are allowed in a temporary file name.
temp_file_chars ==
    <<
      "a", "b", "c", "d", "e", "f", "g", "h", "i", "j", "k", "l", "m",
      "n", "o", "p", "q", "r", "s", "t", "u", "v", "w", "x", "y", "z",
      "A", "B", "C", "D", "E", "F", "G", "H", "I", "J", "K", "L", "M",
      "N", "O", "P", "Q", "R", "S", "T", "U", "V", "W", "X", "Y", "Z",
      "0", "1", "2", "3", "4", "5", "6", "7", "8", "9"
    >>

\* sizeof(temp_file_chars): the characters and the terminating NUL.
SizeofTempFileChars == Len(temp_file_chars) + 1

\* int index = rand() % sizeof(temp_file_chars) - 1, for rand() = r.  The
\* remainder is taken first, in size_t; 1 is subtracted from it in size_t,
\* which wraps a remainder of 0 around to SIZE_MAX; the conversion to int
\* keeps the low 32 bits, which makes SIZE_MAX -1.  So the int is the
\* remainder minus one in every case.
TempFileIndex(r) == (r % SizeofTempFileChars) - 1

\* A byte that is read from outside an array: any byte, of which these are
\* taken.
AnyByte == {"a", "/", "NUL"}

\* temp_file_chars[index]: the character of the array, the terminating NUL
\* behind the characters, or, outside the array, any byte.
TempFileChar(index) ==
    IF index \in 0..(Len(temp_file_chars) - 1)
    THEN {temp_file_chars[index + 1]}
    ELSE IF index = Len(temp_file_chars) THEN {"NUL"} ELSE AnyByte

\* File::create_temp, one turn of the loop over the six X of
\* "/tmp/dbpp-XXXXXX" (positions 10 to 15): file_name[i] =
\* temp_file_chars[index].
ReplaceX ==
    /\ file_name.pos < 16
    /\ \E r \in 0..MaxRand :
          \E c \in TempFileChar(TempFileIndex(r)) :
             file_name' = [pos |-> file_name.pos + 1, rand |-> r,
                           index |-> TempFileIndex(r), char |-> c]
    /\ UNCHANGED <<kind, status, tableVars, rows, scanVars, histVars, got,
                   algVars, sys, copied, moved, snapshot>>

\* File::create_temp is called again: the loop starts at position 10 of a
\* new "/tmp/dbpp-XXXXXX".
NextName ==
    /\ file_name.pos = 16
    /\ file_name' = [file_name EXCEPT !.pos = 10]
    /\ UNCHANGED <<kind, status, tableVars, rows, scanVars, histVars, got,
                   algVars, sys, copied, moved, snapshot>>

\* A program that makes names of temporary files.
NameNext ==
    \/ ReplaceX
    \/ NextName

NameSpec == TempInit /\ [][NameNext]_vars

\* C37: the index made for a character of the name of a temporary file is one
\* of 0..61, and the character put into the name is one of the 62 letters and
\* digits of temp_file_chars, whatever rand() returned.
C37_IndexInRange ==
    file_name.pos > 10 =>
        /\ file_name.index \in 0..61
        /\ \E k \in 1..Len(temp_file_chars) :
              temp_file_chars[k] = file_name.char

====
